---- MODULE Spec2Model ----
(***************************************************************************)
(* Rule activation engine (components/utils/RuleActivationEngine.ts).      *)
(*                                                                         *)
(* Conventions of the translation                                          *)
(*   - a JavaScript string is a sequence of one-character strings;         *)
(*     an absent (undefined) string and "" are both <<>> where the code    *)
(*     only tests the string for truthiness; rule.content, which          *)
(*     formatForPrompt prints without a test, is <<>> when undefined and   *)
(*     <<s>> when it holds the string s;                                   *)
(*   - an optional number or boolean field is <<>> when it is undefined    *)
(*     and <<v>> when it holds v;                                          *)
(*   - a rule object is identified by its position in the caller's pool;   *)
(*     lists of rules (activeRules, skipped, ActivatedRule.rule) hold      *)
(*     positions, as the code holds references to the pool's objects.      *)
(***************************************************************************)
EXTENDS Integers, Sequences, FiniteSets, TLC

VARIABLES
    rules,              \* the caller's rule pool (CustomRule[]), mutated in place
    activationHistory,  \* Map<string, number[]>: rule id -> turn numbers
    pc,                 \* "idle" | "loop" : position inside processRules
    context,            \* the ActivationContext of the running / last call
    activeRules,        \* processRules: filtered and sorted rules (positions)
    idx,                \* processRules: number of activeRules already visited
    activated,          \* processRules: ActivatedRule[]
    skipped,            \* processRules: CustomRule[] (positions)
    totalTokens,        \* processRules: running total
    log,                \* console output of the running / last pass, one entry per rule
    result,             \* <<>> or <<ActivationResult>> returned by the last call
    calls,              \* number of processRules calls started so far
    sinceClear,         \* number of processRules calls started since the last
                        \* clearHistory (or since construction)
    prompt,             \* <<>> or <<string>>: what formatForPrompt returned for result
    admitted,           \* rule id -> number of admissions of the id since the last
                        \* clearHistory (or since construction)
    ai,                 \* createGameActionHandlers: an AI client is given
    isUsingDefaultKey,  \* createGameActionHandlers: parameter
    userApiKeyCount,    \* createGameActionHandlers: parameter
    isLoading,          \* the flag written by setIsLoading
    gameHistory,        \* the history written by setGameHistory
    turnCount,          \* the count written by setTurnCount
    rotateCalls,        \* number of rotateKey() calls so far
    closureHistory,     \* createGameActionHandlers: the gameHistory parameter the
                        \* current handlers were created with
    hpc,                \* per handler invocation, the await it is at ("story" |
                        \* "action" | "retry" | "suggest"), or "done"
    call                \* per handler invocation, its arguments, the gameHistory
                        \* of its closure and what its awaited calls settled to

engineVars == <<rules, activationHistory, pc, context, activeRules, idx, activated,
                skipped, totalTokens, log, result, calls, sinceClear, prompt, admitted>>

handlerVars == <<ai, isUsingDefaultKey, userApiKeyCount, isLoading, gameHistory,
                 turnCount, rotateCalls, closureHistory, hpc, call>>

vars == <<engineVars, handlerVars>>

-----------------------------------------------------------------------------
(* JavaScript values *)

\* x is an optional number: JS truthiness of x (undefined, 0 are falsy)
TruthyNum(x) == x # <<>> /\ x[1] # 0

\* x is an optional boolean: JS truthiness of x
TruthyBool(x) == x # <<>> /\ x[1]

\* a || b on optional numbers
OrNum(a, b) == IF TruthyNum(a) THEN a ELSE b

\* a || b on optional booleans
OrBool(a, b) == IF TruthyBool(a) THEN a ELSE b

\* Math.ceil(n / d) for n >= 0, d > 0
CeilDiv(n, d) == (n + d - 1) \div d

\* Array.prototype.slice(-n): the last n elements for n > 0; slice(-0) is
\* slice(0), the whole array; for n < 0 it is slice(|n|), all but the first |n|
LastN(s, n) ==
    IF n > 0 THEN (IF n >= Len(s) THEN s ELSE SubSeq(s, Len(s) - n + 1, Len(s)))
    ELSE IF n = 0 THEN s
    ELSE SubSeq(s, (0 - n) + 1, Len(s))

-----------------------------------------------------------------------------
(* Strings *)

LowerLetters ==
    <<"a", "b", "c", "d", "e", "f", "g", "h", "i", "j", "k", "l", "m",
      "n", "o", "p", "q", "r", "s", "t", "u", "v", "w", "x", "y", "z">>

UpperLetters ==
    <<"A", "B", "C", "D", "E", "F", "G", "H", "I", "J", "K", "L", "M",
      "N", "O", "P", "Q", "R", "S", "T", "U", "V", "W", "X", "Y", "Z">>

Digits == <<"0", "1", "2", "3", "4", "5", "6", "7", "8", "9">>

\* the set of the elements of a sequence
Range(s) == {s[i] : i \in 1..Len(s)}

\* A string is a sequence of UTF-16 code units.  An ASCII character is written
\* as itself ("\t", "\n", "\r" for tab, line feed, carriage return; the grave
\* accent is written "U+0060"), any other code unit by its code point, as in
\* "U+0110".  The strings of the model are over ASCII, the white space of
\* IsSpace, the letters of CasePairs and SecondLowerPairs, I with dot above
\* and the combining dot above: the model says nothing of other characters.

\* upper-case and lower-case letter outside ASCII: E acute, E circumflex,
\* D with stroke, A circumflex with dot below, Greek Mu, Greek Sigma
CasePairs ==
    <<<<"U+00C9", "U+00E9">>, <<"U+00CA", "U+00EA">>, <<"U+0110", "U+0111">>,
      <<"U+1EAC", "U+1EAD">>, <<"U+039C", "U+03BC">>, <<"U+03A3", "U+03C3">>>>

\* lower-case letters whose upper case is the upper case of another letter:
\* final sigma (Sigma) and the micro sign (Mu)
SecondLowerPairs == <<<<"U+03A3", "U+03C2">>, <<"U+039C", "U+00B5">>>>

\* toLowerCase of the one-character string c, as a string; the lower case of
\* I with dot above (U+0130) is i followed by the combining dot above (U+0307)
LowerOf(c) ==
    IF c \in Range(UpperLetters)
    THEN <<LowerLetters[CHOOSE i \in 1..Len(UpperLetters) : UpperLetters[i] = c]>>
    ELSE IF \E k \in 1..Len(CasePairs) : CasePairs[k][1] = c
    THEN <<CasePairs[CHOOSE k \in 1..Len(CasePairs) : CasePairs[k][1] = c][2]>>
    ELSE IF c = "U+0130" THEN <<"i", "U+0307">>
    ELSE <<c>>

\* toUpperCase of the character c; every character of the model's strings has
\* a one-character upper case
UpperOf(c) ==
    IF c \in Range(LowerLetters)
    THEN UpperLetters[CHOOSE i \in 1..Len(LowerLetters) : LowerLetters[i] = c]
    ELSE IF \E k \in 1..Len(CasePairs) : CasePairs[k][2] = c
    THEN CasePairs[CHOOSE k \in 1..Len(CasePairs) : CasePairs[k][2] = c][1]
    ELSE IF \E k \in 1..Len(SecondLowerPairs) : SecondLowerPairs[k][2] = c
    THEN SecondLowerPairs[CHOOSE k \in 1..Len(SecondLowerPairs) :
                              SecondLowerPairs[k][2] = c][1]
    ELSE c

\* the Unicode properties Cased and Case_Ignorable, on the model's characters
IsCased(c) ==
    \/ c \in Range(LowerLetters) \cup Range(UpperLetters)
    \/ \E k \in 1..Len(CasePairs) : c \in Range(CasePairs[k])
    \/ \E k \in 1..Len(SecondLowerPairs) : c \in Range(SecondLowerPairs[k])
    \/ c = "U+0130"

\* (apostrophe, full stop, colon, circumflex, grave accent U+0060, combining
\* dot above U+0307, zero width no-break space U+FEFF)
IsCaseIgnorable(c) == c \in {"'", ".", ":", "^", "U+0060", "U+0307", "U+FEFF"}

\* the Final_Sigma condition of toLowerCase at position i of s: a cased letter
\* before it and none after it, case-ignorable characters skipped
FinalSigma(s, i) ==
    /\ \E j \in 1..(i - 1) :
          IsCased(s[j]) /\ \A k \in (j + 1)..(i - 1) : IsCaseIgnorable(s[k])
    /\ ~\E j \in (i + 1)..Len(s) :
          IsCased(s[j]) /\ \A k \in (i + 1)..(j - 1) : IsCaseIgnorable(s[k])

\* the concatenation of a list of strings
RECURSIVE Concat(_)
Concat(parts) == IF parts = <<>> THEN <<>> ELSE parts[1] \o Concat(Tail(parts))

\* String.prototype.toLowerCase
ToLowerCase(s) ==
    Concat([i \in 1..Len(s) |->
              IF s[i] = "U+03A3" /\ FinalSigma(s, i) THEN <<"U+03C2">> ELSE LowerOf(s[i])])

\* the characters \w of a JavaScript regular expression: [A-Za-z0-9_]
WordChars == Range(LowerLetters) \cup Range(UpperLetters) \cup Range(Digits) \cup {"_"}

IsWordChar(c) == c \in WordChars

\* the white space String.prototype.trim removes, and \s matches: WhiteSpace
\* (tab, VT, FF, space, NBSP, ZWNBSP, the category Zs) and LineTerminator
IsSpace(c) ==
    c \in {" ", "\t", "\n", "\r", "U+000B", "U+000C", "U+00A0", "U+1680",
           "U+2000", "U+2001", "U+2002", "U+2003", "U+2004", "U+2005", "U+2006",
           "U+2007", "U+2008", "U+2009", "U+200A", "U+2028", "U+2029", "U+202F",
           "U+205F", "U+3000", "U+FEFF"}

RECURSIVE TrimLeft(_)
TrimLeft(s) == IF s # <<>> /\ IsSpace(s[1]) THEN TrimLeft(Tail(s)) ELSE s

RECURSIVE TrimRight(_)
TrimRight(s) ==
    IF s # <<>> /\ IsSpace(s[Len(s)]) THEN TrimRight(SubSeq(s, 1, Len(s) - 1)) ELSE s

\* String.prototype.trim
Trim(s) == TrimRight(TrimLeft(s))

\* kw occurs in text at position i (1-based)
OccursAt(text, kw, i) ==
    /\ i >= 1
    /\ i + Len(kw) - 1 <= Len(text)
    /\ \A j \in 1..Len(kw) : text[i + j - 1] = kw[j]

\* String.prototype.includes
Includes(text, kw) == \E i \in 1..(Len(text) + 1) : OccursAt(text, kw, i)

\* the regular expression assertion \b between text[p] and text[p+1]
WordBoundary(text, p) ==
    LET before == p >= 1 /\ p <= Len(text) /\ IsWordChar(text[p])
        after  == p + 1 >= 1 /\ p + 1 <= Len(text) /\ IsWordChar(text[p + 1])
    IN  before # after

\* Canonicalize of a regular expression with the flag i and without the flag
\* u: the upper case of the character, when that is one code unit and not an
\* ASCII character for a character outside ASCII
Canonicalize(c, ignoreCase) == IF ignoreCase THEN UpperOf(c) ELSE c

\* new RegExp(`\\b${escapeRegex(kw)}\\b`, flags).test(text), where the flags
\* hold i when ignoreCase: kw is matched literally, character by character
\* under Canonicalize
TestWholeWord(text, kw, ignoreCase) ==
    \E i \in 1..(Len(text) + 1) :
        /\ i + Len(kw) - 1 <= Len(text)
        /\ \A j \in 1..Len(kw) :
              Canonicalize(text[i + j - 1], ignoreCase) = Canonicalize(kw[j], ignoreCase)
        /\ WordBoundary(text, i - 1)
        /\ WordBoundary(text, i + Len(kw) - 1)

\* Array.prototype.join(' ') on a list of strings
RECURSIVE JoinSpace(_)
JoinSpace(parts) ==
    IF parts = <<>> THEN <<>>
    ELSE IF Len(parts) = 1 THEN parts[1]
    ELSE parts[1] \o <<" ">> \o JoinSpace(Tail(parts))

-----------------------------------------------------------------------------
(* RuleActivationEngine: private helpers *)

\* enum RuleLogic (declared in ../types.ts); AND_ANY is the falsy member 0, so
\* that rule.logic || RuleLogic.AND_ANY leaves every member unchanged
RuleLogic == {"AND_ANY", "AND_ALL", "NOT_ALL", "NOT_ANY"}

\* a keyword that is not a string (null in a saved rule): keyword.trim() throws
NotAString == <<"<null>">>

\* private estimateTokens(text): text is <<>> when undefined and <<s>> when it
\* holds the string s; if (!text) return 0 answers both undefined and ""
estimateTokens(text) ==
    IF text = <<>> \/ text[1] = <<>> THEN 0 ELSE CeilDiv(Len(text[1]), 4)

\* the test of one keyword inside the loop of checkKeywordMatch;
\* caseSensitive and matchWholeWords are the (optional) arguments of the call
keywordMatches(text, keyword, caseSensitive, matchWholeWords) ==
    LET cs            == TruthyBool(caseSensitive)
        searchText    == IF cs THEN text ELSE ToLowerCase(text)
        searchKeyword == IF cs THEN keyword ELSE ToLowerCase(keyword)
    IN  /\ Trim(keyword) # <<>>
        /\ IF TruthyBool(matchWholeWords)
           THEN TestWholeWord(searchText, searchKeyword, ~cs)
           ELSE Includes(searchText, searchKeyword)

\* private checkKeywordMatch(text, keywords, caseSensitive, matchWholeWords):
\* the matchedKeywords it returns (matches is matchedKeywords.length > 0)
checkKeywordMatch(text, keywords, caseSensitive, matchWholeWords) ==
    LET hit(k) == keywordMatches(text, k, caseSensitive, matchWholeWords)
    IN  SelectSeq(keywords, hit)

\* rule.logic || RuleLogic.AND_ANY
LogicOf(rule) == IF rule.logic = <<>> THEN "AND_ANY" ELSE rule.logic[1]

\* the reason string of evaluateRuleLogic: its wording and the counts it embeds
Reason(kind, count, total) == [kind |-> kind, count |-> count, total |-> total]

\* AndAnySatisfied that looks at the primary matches only
AndAnySatisfied_PrimaryOnly(rule, primaryMatches, secondaryMatches) ==
    Len(primaryMatches) > 0

\* case RuleLogic.AND_ANY: any primary keyword OR any secondary keyword
AndAnySatisfied(rule, primaryMatches, secondaryMatches) ==
    Len(primaryMatches) > 0 \/ Len(secondaryMatches) > 0

\* AndAllSatisfied that forgets the secondary keywords
AndAllSatisfied_PrimaryOnly(rule, primaryMatches, secondaryMatches) ==
    Len(primaryMatches) = Len(rule.keywords)

\* case RuleLogic.AND_ALL: all primary keywords AND all secondary keywords
AndAllSatisfied(rule, primaryMatches, secondaryMatches) ==
    LET primaryRequired   == Len(rule.keywords)
        secondaryRequired == Len(rule.secondaryKeywords)
    IN  /\ Len(primaryMatches) = primaryRequired
        /\ Len(secondaryMatches) = secondaryRequired

\* NotAllSatisfied without the test `allMatched.length > 0`
NotAllSatisfied_NoLowerBound(rule, primaryMatches, secondaryMatches) ==
    Len(primaryMatches \o secondaryMatches)
        < Len(rule.keywords) + Len(rule.secondaryKeywords)

\* case RuleLogic.NOT_ALL: some but not all keywords
NotAllSatisfied(rule, primaryMatches, secondaryMatches) ==
    LET allMatched    == primaryMatches \o secondaryMatches
        totalRequired == Len(rule.keywords) + Len(rule.secondaryKeywords)
    IN  Len(allMatched) < totalRequired /\ Len(allMatched) > 0

\* NotAnySatisfied that looks at the primary matches only
NotAnySatisfied_PrimaryOnly(rule, primaryMatches, secondaryMatches) ==
    Len(primaryMatches) = 0

\* case RuleLogic.NOT_ANY: none of the keywords
NotAnySatisfied(rule, primaryMatches, secondaryMatches) ==
    Len(primaryMatches \o secondaryMatches) = 0

\* HasAnyKeywords that takes every rule for a keyword rule
HasAnyKeywords_Always(rule) == TRUE

\* hasKeywords or hasSecondaryKeywords: the rule has a keyword list to match
HasAnyKeywords(rule) == Len(rule.keywords) > 0 \/ Len(rule.secondaryKeywords) > 0

\* evaluateRuleLogic after the alwaysActive test: the keyword-driven rules
KeywordLogic(rule, primaryMatches, secondaryMatches) ==
    LET logic                == LogicOf(rule)
        allMatched           == primaryMatches \o secondaryMatches
        totalRequired        == Len(rule.keywords) + Len(rule.secondaryKeywords)
        no == [activated |-> FALSE, reason |-> Reason("not satisfied", 0, 0),
               matchedKeywords |-> allMatched]
    IN  IF ~HasAnyKeywords(rule)
        THEN [activated |-> FALSE, reason |-> Reason("No keywords defined", 0, 0),
              matchedKeywords |-> <<>>]
        ELSE CASE logic = "AND_ANY" ->
                    IF AndAnySatisfied(rule, primaryMatches, secondaryMatches)
                    THEN [activated |-> TRUE,
                          reason |-> Reason("AND_ANY", Len(allMatched), 0),
                          matchedKeywords |-> allMatched]
                    ELSE no
               [] logic = "AND_ALL" ->
                    IF AndAllSatisfied(rule, primaryMatches, secondaryMatches)
                    THEN [activated |-> TRUE,
                          reason |-> Reason("AND_ALL", totalRequired, 0),
                          matchedKeywords |-> allMatched]
                    ELSE no
               [] logic = "NOT_ALL" ->
                    IF NotAllSatisfied(rule, primaryMatches, secondaryMatches)
                    THEN [activated |-> TRUE,
                          reason |-> Reason("NOT_ALL", Len(allMatched), totalRequired),
                          matchedKeywords |-> allMatched]
                    ELSE no
               [] logic = "NOT_ANY" ->
                    IF NotAnySatisfied(rule, primaryMatches, secondaryMatches)
                    THEN [activated |-> TRUE, reason |-> Reason("NOT_ANY", 0, 0),
                          matchedKeywords |-> <<>>]
                    ELSE no
               [] OTHER -> no

\* evaluateRuleLogic without the alwaysActive test
evaluateRuleLogic_NoAlwaysActive(rule, primaryMatches, secondaryMatches) ==
    KeywordLogic(rule, primaryMatches, secondaryMatches)

\* private evaluateRuleLogic(rule, primaryMatches, secondaryMatches, allText)
evaluateRuleLogic(rule, primaryMatches, secondaryMatches) ==
    IF rule.alwaysActive
    THEN [activated |-> TRUE, reason |-> Reason("Always active", 0, 0),
          matchedKeywords |-> <<>>]
    ELSE KeywordLogic(rule, primaryMatches, secondaryMatches)

\* checkProbability with `<=` in place of `<` in the comparison of the draw
checkProbability_DrawAtMost(rule, r) ==
    IF rule.probability = <<>> \/ rule.probability[1] >= 100 THEN TRUE
    ELSE IF rule.probability[1] <= 0 THEN FALSE
    ELSE r <= rule.probability[1]

\* private checkProbability(rule), r being the value of Math.random() * 100
checkProbability(rule, r) ==
    IF rule.probability = <<>> \/ rule.probability[1] >= 100 THEN TRUE
    ELSE IF rule.probability[1] <= 0 THEN FALSE
    ELSE r < rule.probability[1]

\* checkProbability calls Math.random only for 0 < probability < 100
DrawsRandom(rule) ==
    rule.probability # <<>> /\ rule.probability[1] > 0 /\ rule.probability[1] < 100

\* number of entries of a history equal to the turn
CountTurn(history, turn) == Len(SelectSeq(history, LAMBDA t : t = turn))

\* this.activationHistory.get(id) || []
HistoryOf(hist, id) == IF id \in DOMAIN hist THEN hist[id] ELSE <<>>

\* checkActivationLimits counting the activations of every turn
checkActivationLimits_AnyTurn(hist, rule, currentTurn) ==
    IF ~TruthyNum(rule.maxActivationsPerTurn) \/ rule.maxActivationsPerTurn[1] <= 0
    THEN TRUE
    ELSE Len(HistoryOf(hist, rule.id)) < rule.maxActivationsPerTurn[1]

\* checkActivationLimits that lets a rule at its cap through
checkActivationLimits_AtMost(hist, rule, currentTurn) ==
    IF ~TruthyNum(rule.maxActivationsPerTurn) \/ rule.maxActivationsPerTurn[1] <= 0
    THEN TRUE
    ELSE CountTurn(HistoryOf(hist, rule.id), currentTurn) <= rule.maxActivationsPerTurn[1]

\* private checkActivationLimits(rule, currentTurn), on the history map hist
checkActivationLimits(hist, rule, currentTurn) ==
    IF ~TruthyNum(rule.maxActivationsPerTurn) \/ rule.maxActivationsPerTurn[1] <= 0
    THEN TRUE
    ELSE CountTurn(HistoryOf(hist, rule.id), currentTurn) < rule.maxActivationsPerTurn[1]

\* entry.parts.map(part => part.text).join(' ') followed by ' ', for each entry
RECURSIVE EntriesText(_)
EntriesText(entries) ==
    IF entries = <<>> THEN <<>>
    ELSE JoinSpace(entries[1].parts) \o <<" ">> \o EntriesText(Tail(entries))

\* memory.text followed by ' ', for each memory
RECURSIVE MemoriesText(_)
MemoriesText(mems) ==
    IF mems = <<>> THEN <<>>
    ELSE mems[1].text \o <<" ">> \o MemoriesText(Tail(mems))

\* rule.scanDepth || context.scanDepth || 5
DefaultScanDepth == 5
ScanDepthOf(rule, ctx) ==
    OrNum(OrNum(rule.scanDepth, ctx.scanDepth), <<DefaultScanDepth>>)[1]

\* how many of the last AI responses of the history are scanned
AIHistoryWindow == 3

\* the importance above which a pinned memory is scanned
PinnedImportance == 70

\* ScanEnabled that takes an unset toggle for a disabled one
ScanEnabled_OnlyTrue(toggle) == toggle = <<TRUE>>

\* rule.scanPlayerInput !== false (and the same for the two other toggles)
ScanEnabled(toggle) == toggle # <<FALSE>>

\* aiResponses that takes the scan depth for its window
aiResponses_ByDepth(rule, ctx) ==
    LastN(SelectSeq(ctx.gameHistory, LAMBDA e : e.role = "model"),
          ScanDepthOf(rule, ctx))

\* context.gameHistory.filter(entry => entry.role === 'model').slice(-3)
aiResponses(rule, ctx) ==
    LastN(SelectSeq(ctx.gameHistory, LAMBDA e : e.role = "model"), AIHistoryWindow)

\* the entries of context.gameHistory.slice(-depth) with entry.role === 'user'
recentUserEntries(rule, ctx) ==
    SelectSeq(LastN(ctx.gameHistory, ScanDepthOf(rule, ctx)),
              LAMBDA e : e.role = "user")

\* recentMemories that slices before it filters
recentMemories_SliceFirst(rule, ctx) ==
    SelectSeq(LastN(ctx.memories, ScanDepthOf(rule, ctx)),
              LAMBDA m : ~m.pinned
                         \/ (TruthyNum(m.importance)
                             /\ m.importance[1] > PinnedImportance))

\* context.memories.filter(m => !m.pinned || m.importance && m.importance > 70)
\*                 .slice(-depth)
recentMemories(rule, ctx) ==
    LastN(SelectSeq(ctx.memories,
                    LAMBDA m : ~m.pinned
                               \/ (TruthyNum(m.importance)
                                   /\ m.importance[1] > PinnedImportance)),
          ScanDepthOf(rule, ctx))

\* private collectScanText(rule, context)
collectScanText(rule, ctx) ==
    LET playerPart ==
            IF ScanEnabled(rule.scanPlayerInput) /\ ctx.playerInput # <<>>
            THEN ctx.playerInput \o <<" ">> ELSE <<>>
        aiPart ==
            IF ScanEnabled(rule.scanAIOutput) /\ ctx.aiResponse # <<>>
            THEN ctx.aiResponse \o <<" ">> ELSE <<>>
        aiHistoryPart ==
            IF Len(ctx.gameHistory) > 0 /\ ScanEnabled(rule.scanAIOutput)
            THEN EntriesText(aiResponses(rule, ctx)) ELSE <<>>
        userHistoryPart ==
            IF Len(ctx.gameHistory) > 0 /\ ScanEnabled(rule.scanPlayerInput)
            THEN EntriesText(recentUserEntries(rule, ctx)) ELSE <<>>
        memoryPart ==
            IF ScanEnabled(rule.scanMemories)
            THEN MemoriesText(recentMemories(rule, ctx)) ELSE <<>>
    IN  Trim(playerPart \o aiPart \o aiHistoryPart \o userHistoryPart \o memoryPart)

-----------------------------------------------------------------------------
(* RuleActivationEngine.processRules *)

\* the token budget of a turn when the context gives none
DefaultTokenBudget == 5000

\* context.tokenBudget || 5000
TokenBudgetOf(ctx) == OrNum(ctx.tokenBudget, <<DefaultTokenBudget>>)[1]

\* context.currentTurn || 0
CurrentTurnOf(ctx) == OrNum(ctx.currentTurn, <<0>>)[1]

\* rule.order || 0
OrderOf(rule) == OrNum(rule.order, <<0>>)[1]

\* rule.tokenWeight || this.estimateTokens(rule.content)
TokenCostOf(rule) ==
    IF TruthyNum(rule.tokenWeight) THEN rule.tokenWeight[1]
    ELSE estimateTokens(rule.content)

\* Array.prototype.sort((a, b) => key(b) - key(a)): the stable permutation of
\* 1..Len(keys) that puts the keys in descending order
\* InsertDesc that puts an element before the earlier elements of the same key
RECURSIVE InsertDesc_BeforeEqual(_, _, _)
InsertDesc_BeforeEqual(keys, sorted, i) ==
    IF sorted = <<>> THEN <<i>>
    ELSE IF keys[sorted[1]] > keys[i]
         THEN <<sorted[1]>> \o InsertDesc_BeforeEqual(keys, Tail(sorted), i)
         ELSE <<i>> \o sorted

RECURSIVE InsertDesc(_, _, _)
InsertDesc(keys, sorted, i) ==
    IF sorted = <<>> THEN <<i>>
    ELSE IF keys[sorted[1]] >= keys[i]
         THEN <<sorted[1]>> \o InsertDesc(keys, Tail(sorted), i)
         ELSE <<i>> \o sorted

RECURSIVE SortPrefix(_, _)
SortPrefix(keys, n) ==
    IF n = 0 THEN <<>> ELSE InsertDesc(keys, SortPrefix(keys, n - 1), n)

\* the sort with the comparator reversed: (a, b) => key(a) - key(b)
RECURSIVE InsertAsc(_, _, _)
InsertAsc(keys, sorted, i) ==
    IF sorted = <<>> THEN <<i>>
    ELSE IF keys[sorted[1]] <= keys[i]
         THEN <<sorted[1]>> \o InsertAsc(keys, Tail(sorted), i)
         ELSE <<i>> \o sorted

RECURSIVE SortPrefixAsc(_, _)
SortPrefixAsc(keys, n) ==
    IF n = 0 THEN <<>> ELSE InsertAsc(keys, SortPrefixAsc(keys, n - 1), n)

StableSortDesc_Ascending(keys) == SortPrefixAsc(keys, Len(keys))

StableSortDesc(keys) == SortPrefix(keys, Len(keys))

\* ActiveRulesOf without the isActive filter
ActiveRulesOf_NoFilter(pool) ==
    LET perm == StableSortDesc([k \in 1..Len(pool) |-> OrderOf(pool[k])])
    IN  [k \in 1..Len(pool) |-> perm[k]]

\* a pool entry that is null: it is no object, and reading a field of it fails
NullRule == [null |-> TRUE]

\* rule.isActive raises a TypeError in the filter callback of
\* rules.filter(rule => rule.isActive): an entry of the pool is null.  The
\* filter runs before the loop and outside its try block
FilterThrows(pool) == \E i \in 1..Len(pool) : pool[i] = NullRule

\* rules.filter(rule => rule.isActive).sort((a, b) => (b.order || 0) - (a.order || 0))
ActiveRulesOf(pool) ==
    LET act  == SelectSeq([i \in 1..Len(pool) |-> i], LAMBDA i : pool[i].isActive)
        perm == StableSortDesc([k \in 1..Len(act) |-> OrderOf(pool[act[k]])])
    IN  [k \in 1..Len(act) |-> act[perm[k]]]

\* activated.sort((a, b) => b.priority - a.priority)
SortActivated(acts) ==
    LET perm == StableSortDesc([k \in 1..Len(acts) |-> acts[k].priority])
    IN  [k \in 1..Len(acts) |-> acts[perm[k]]]

\* keyword.trim() throws inside checkKeywordMatch: some keyword is not a string
KeywordsThrow(rule) ==
    \/ \E k \in 1..Len(rule.keywords) : rule.keywords[k] = NotAString
    \/ \E k \in 1..Len(rule.secondaryKeywords) : rule.secondaryKeywords[k] = NotAString

\* the arguments processRules passes to checkKeywordMatch
CaseSensitiveOf(rule, ctx) == OrBool(rule.caseSensitive, ctx.caseSensitive)
MatchWholeWordsOf(rule, ctx) == OrBool(rule.matchWholeWords, ctx.matchWholeWords)

PrimaryMatch(rule, ctx) ==
    checkKeywordMatch(collectScanText(rule, ctx), rule.keywords,
                      CaseSensitiveOf(rule, ctx), MatchWholeWordsOf(rule, ctx))

SecondaryMatch(rule, ctx) ==
    checkKeywordMatch(collectScanText(rule, ctx), rule.secondaryKeywords,
                      CaseSensitiveOf(rule, ctx), MatchWholeWordsOf(rule, ctx))

\* Gate with the scan text collected before the cap and the probability gate
Gate_TextFirst(hist, rule, ctx, total, r) ==
    IF collectScanText(rule, ctx) = <<>> THEN "no text"
    ELSE IF ~checkActivationLimits(hist, rule, CurrentTurnOf(ctx)) THEN "cap"
    ELSE IF ~checkProbability(rule, r) THEN "probability"
    ELSE IF KeywordsThrow(rule) THEN "error"
    ELSE IF ~evaluateRuleLogic(rule, PrimaryMatch(rule, ctx),
                               SecondaryMatch(rule, ctx)).activated THEN "logic"
    ELSE IF total + TokenCostOf(rule) > TokenBudgetOf(ctx) THEN "budget"
    ELSE "activated"

\* the gate that decides one rule in the body of the loop of processRules:
\* hist is the history map, total the running total, r the random draw
Gate(hist, rule, ctx, total, r) ==
    IF ~checkActivationLimits(hist, rule, CurrentTurnOf(ctx)) THEN "cap"
    ELSE IF ~checkProbability(rule, r) THEN "probability"
    ELSE IF collectScanText(rule, ctx) = <<>> THEN "no text"
    ELSE IF KeywordsThrow(rule) THEN "error"
    ELSE IF ~evaluateRuleLogic(rule, PrimaryMatch(rule, ctx),
                               SecondaryMatch(rule, ctx)).activated THEN "logic"
    ELSE IF total + TokenCostOf(rule) > TokenBudgetOf(ctx) THEN "budget"
    ELSE "activated"

\* SkipGates with a push where the scan text is empty
SkipGates_WithNoText == {"cap", "probability", "no text", "error", "logic", "budget"}

\* SkipGates with a push for an admitted rule too
SkipGates_WithAdmitted == {"cap", "probability", "error", "logic", "budget", "activated"}

\* the gates after which the rule is pushed on the skipped list
SkipGates == {"cap", "probability", "error", "logic", "budget"}

\* the ActivatedRule built for an admitted rule (position i of the pool)
ActivatedRuleOf(pool, i, ctx) ==
    LET rule == pool[i]
        lr   == evaluateRuleLogic(rule, PrimaryMatch(rule, ctx), SecondaryMatch(rule, ctx))
    IN  [rule |-> i, activationReason |-> lr.reason,
         matchedKeywords |-> lr.matchedKeywords,
         tokenCost |-> TokenCostOf(rule), priority |-> OrderOf(rule)]

\* AddTokens with `=` in place of `+=`
AddTokens_Assign(total, tokenCost) == tokenCost

\* AddTokens that counts one token more
AddTokens_OneMore(total, tokenCost) == total + tokenCost + 1

\* totalTokens += tokenCost
AddTokens(total, tokenCost) == total + tokenCost

\* PushHistory that starts the history of the rule anew
PushHistory_Overwrite(hist, id, turn) ==
    [k \in (DOMAIN hist) \cup {id} |-> IF k = id THEN <<turn>> ELSE hist[k]]

\* history = this.activationHistory.get(rule.id) || []; history.push(currentTurn);
\* this.activationHistory.set(rule.id, history)
PushHistory(hist, id, turn) ==
    [k \in (DOMAIN hist) \cup {id} |-> IF k = id THEN Append(HistoryOf(hist, id), turn)
                                       ELSE hist[k]]

\* UpdateMetadata with the two assignments' targets swapped
UpdateMetadata_Swapped(rule, turn) ==
    [rule EXCEPT !.activationCount = <<turn>>,
                 !.lastActivated = <<OrNum(rule.activationCount, <<0>>)[1] + 1>>]

\* rule.lastActivated = currentTurn; rule.activationCount = (rule.activationCount || 0) + 1
UpdateMetadata(rule, turn) ==
    [rule EXCEPT !.lastActivated = <<turn>>,
                 !.activationCount = <<OrNum(rule.activationCount, <<0>>)[1] + 1>>]

\* the values Math.random() * 100 is drawn from (a sample of [0, 100))
RandomDraws == {0, 49, 50, 99}

\* bound on the number of processRules calls of a behaviour
MaxCalls == 3

\* ProcessRulesStart that sorts the caller's array and not a copy of it
ProcessRulesStart_SortsPool(ctx) ==
    /\ pc = "idle"
    /\ calls < MaxCalls
    /\ pc' = "loop"
    /\ calls' = calls + 1
    /\ context' = ctx
    /\ rules' = LET perm == StableSortDesc([k \in 1..Len(rules) |-> OrderOf(rules[k])])
                IN  [k \in 1..Len(rules) |-> rules[perm[k]]]
    /\ activeRules' = ActiveRulesOf(rules')
    /\ idx' = 0
    /\ activated' = <<>>
    /\ skipped' = <<>>
    /\ totalTokens' = 0
    /\ log' = <<>>
    /\ result' = <<>>
    /\ sinceClear' = sinceClear + 1
    /\ prompt' = <<>>
    /\ UNCHANGED <<handlerVars, activationHistory, admitted>>

\* entry of processRules: the locals before the loop.  When the filter throws,
\* nothing catches the TypeError: it leaves processRules, and the call is over
\* without a result and without a rule decided
ProcessRulesStart(ctx) ==
    /\ pc = "idle"
    /\ calls < MaxCalls
    /\ pc' = IF FilterThrows(rules) THEN "idle" ELSE "loop"
    /\ calls' = calls + 1
    /\ context' = ctx
    /\ activeRules' = IF FilterThrows(rules) THEN <<>> ELSE ActiveRulesOf(rules)
    /\ idx' = 0
    /\ activated' = <<>>
    /\ skipped' = <<>>
    /\ totalTokens' = 0
    /\ log' = <<>>
    /\ result' = <<>>
    /\ sinceClear' = sinceClear + 1
    /\ prompt' = <<>>
    /\ UNCHANGED <<handlerVars, rules, activationHistory, admitted>>

\* Admits without the `continue` of the budget gate
Admits_OverBudget(gate) == gate \in {"activated", "budget"}

\* the iteration reaches the admission block: no gate has left it
Admits(gate) == gate = "activated"

\* one iteration of `for (const rule of activeRules)`, deciding rule i; draw is
\* <<r>> when checkProbability draws r, and <<>> when it draws nothing
ProcessRuleWith(i, draw) ==
    LET rule == rules[i]
        turn == CurrentTurnOf(context)
        r    == IF draw = <<>> THEN 0 ELSE draw[1]
        gate == Gate(activationHistory, rule, context, totalTokens, r)
    IN  /\ idx' = idx + 1
        /\ log' = Append(log, [rule |-> i, outcome |-> gate, draw |-> draw])
        /\ skipped' = IF gate \in SkipGates THEN Append(skipped, i) ELSE skipped
        /\ IF Admits(gate)
           THEN /\ activated' = Append(activated, ActivatedRuleOf(rules, i, context))
                /\ totalTokens' = AddTokens(totalTokens, TokenCostOf(rule))
                /\ activationHistory' = PushHistory(activationHistory, rule.id, turn)
                /\ rules' = [rules EXCEPT ![i] = UpdateMetadata(rule, turn)]
                /\ admitted' = [k \in (DOMAIN admitted) \cup {rule.id} |->
                                   IF k = rule.id
                                   THEN (IF k \in DOMAIN admitted THEN admitted[k]
                                         ELSE 0) + 1
                                   ELSE admitted[k]]
           ELSE UNCHANGED <<activated, totalTokens, activationHistory, rules, admitted>>
        /\ UNCHANGED <<handlerVars, pc, context, activeRules, result, calls, sinceClear, prompt>>

ProcessRule ==
    /\ pc = "loop"
    /\ idx < Len(activeRules)
    /\ LET i == activeRules[idx + 1]
       IN  IF /\ checkActivationLimits(activationHistory, rules[i], CurrentTurnOf(context))
              /\ DrawsRandom(rules[i])
           THEN \E r \in RandomDraws : ProcessRuleWith(i, <<r>>)
           ELSE ProcessRuleWith(i, <<>>)

\* end of the loop: the final sort and the returned ActivationResult
ProcessRulesReturn ==
    /\ pc = "loop"
    /\ idx = Len(activeRules)
    /\ pc' = "idle"
    /\ activated' = SortActivated(activated)
    /\ result' = <<[activatedRules |-> SortActivated(activated),
                    totalTokens    |-> totalTokens,
                    budgetExceeded |-> totalTokens > TokenBudgetOf(context),
                    skippedRules   |-> skipped]>>
    /\ UNCHANGED <<handlerVars, rules, activationHistory, context, activeRules, idx, skipped,
                   totalTokens, log, calls, sinceClear, prompt, admitted>>

\* clearHistory that leaves the map as it is
ClearHistory_KeepsMap ==
    /\ pc = "idle"
    /\ sinceClear' = 0
    /\ admitted' = <<>>
    /\ UNCHANGED <<handlerVars, rules, activationHistory, pc, context, activeRules, idx, activated,
                   skipped, totalTokens, log, result, calls, prompt>>

\* clearHistory that also resets the metadata of the rules
ClearHistory_ResetsRules ==
    /\ pc = "idle"
    /\ activationHistory' = <<>>
    /\ sinceClear' = 0
    /\ admitted' = <<>>
    /\ rules' = [i \in 1..Len(rules) |->
                    [rules[i] EXCEPT !.activationCount = <<>>, !.lastActivated = <<>>]]
    /\ UNCHANGED <<handlerVars, pc, context, activeRules, idx, activated, skipped,
                   totalTokens, log, result, calls, prompt>>

\* clearHistory(): this.activationHistory.clear()
ClearHistory ==
    /\ pc = "idle"
    /\ activationHistory' = <<>>
    /\ sinceClear' = 0
    /\ admitted' = <<>>
    /\ UNCHANGED <<handlerVars, rules, pc, context, activeRules, idx, activated, skipped,
                   totalTokens, log, result, calls, prompt>>

-----------------------------------------------------------------------------
(* RuleActivationEngine.formatForPrompt *)

\* In the returned string each fixed stretch of the template literals is one
\* element (its wording written without diacritics) and rule.id is one element;
\* the text of the rule (title, keywords, content) and the digits of the numbers
\* are one element per character.

\* the decimal digits of n >= 0
RECURSIVE DigitsOf(_)
DigitsOf(n) ==
    IF n < 10 THEN <<Digits[n + 1]>>
    ELSE DigitsOf(n \div 10) \o <<Digits[(n % 10) + 1]>>

\* `${n}` for an integer n
NumberToString(n) == IF n < 0 THEN <<"-">> \o DigitsOf(0 - n) ELSE DigitsOf(n)

\* Array.prototype.join(', ') on a list of strings
RECURSIVE JoinComma(_)
JoinComma(parts) ==
    IF parts = <<>> THEN <<>>
    ELSE IF Len(parts) = 1 THEN parts[1]
    ELSE parts[1] \o <<",", " ">> \o JoinComma(Tail(parts))

PromptHeader   == "\n=== LUAT LE TUY CHINH DUOC KICH HOAT ===\n"
TitleFallback  == "Luat "
BlockOpen      == "\n["
BlockPriority  == "] (Do uu tien: "
BlockPriorityEnd == ")"
BlockKeywords  == " - Khop tu khoa: "
LineEnd        == "\n"
FooterOpen     == "\n=== Tong cong: "
FooterRules    == " luat, "
FooterTokens   == " tokens ===\n"

\* rule.title || `Luat ${rule.id}`
TitleOf(rule) == IF rule.title # <<>> THEN rule.title ELSE <<TitleFallback, rule.id>>

\* `${rule.content}` for a rule without content
UndefinedText == <<"u", "n", "d", "e", "f", "i", "n", "e", "d">>

\* the sub-block of one ActivatedRule (its rule is the pool's object)
RuleBlock(act, pool) ==
    LET rule == pool[act.rule]
    IN  <<BlockOpen>> \o TitleOf(rule) \o <<BlockPriority>>
        \o NumberToString(OrderOf(rule)) \o <<BlockPriorityEnd>>
        \o (IF Len(act.matchedKeywords) > 0
            THEN <<BlockKeywords>> \o JoinComma(act.matchedKeywords) ELSE <<>>)
        \o <<LineEnd>>
        \o (IF rule.content = <<>> THEN UndefinedText ELSE rule.content[1])
        \o <<LineEnd>>

RECURSIVE RuleBlocks(_, _)
RuleBlocks(acts, pool) ==
    IF acts = <<>> THEN <<>>
    ELSE RuleBlock(acts[1], pool) \o RuleBlocks(Tail(acts), pool)

\* PromptFooter with the two numbers exchanged
PromptFooter_Exchanged(count, total) ==
    <<FooterOpen>> \o NumberToString(total) \o <<FooterRules>>
    \o NumberToString(count) \o <<FooterTokens>>

\* the last line of the block
PromptFooter(count, total) ==
    <<FooterOpen>> \o NumberToString(count) \o <<FooterRules>>
    \o NumberToString(total) \o <<FooterTokens>>

\* formatForPrompt(activationResult), the rules being the objects of pool
formatForPrompt(activationResult, pool) ==
    IF Len(activationResult.activatedRules) = 0 THEN <<>>
    ELSE <<PromptHeader>> \o RuleBlocks(activationResult.activatedRules, pool)
         \o PromptFooter(Len(activationResult.activatedRules),
                         activationResult.totalTokens)

\* the caller formats the result of the last call
FormatForPrompt ==
    /\ pc = "idle"
    /\ result # <<>>
    /\ prompt' = <<formatForPrompt(result[1], rules)>>
    /\ UNCHANGED <<handlerVars, rules, activationHistory, pc, context, activeRules, idx, activated,
                   skipped, totalTokens, log, result, calls, sinceClear, admitted>>

-----------------------------------------------------------------------------
(* RuleActivationEngine.getStats *)

\* TotalActivations that counts one activation for each id
TotalActivations_OnePerRule(hist, S) == Cardinality(S)

\* the sum of the lengths of the histories of the ids of S
RECURSIVE TotalActivations(_, _)
TotalActivations(hist, S) ==
    IF S = {} THEN 0
    ELSE LET id == CHOOSE k \in S : TRUE
         IN  Len(hist[id]) + TotalActivations(hist, S \ {id})

\* getStats(), on the history map hist; averageActivations is the quotient
\* num / den
getStats(hist) ==
    LET activeRulesCount == Cardinality(DOMAIN hist)
        totalActivations == TotalActivations(hist, DOMAIN hist)
    IN  [totalRules         |-> Cardinality(DOMAIN hist),
         activeRules        |-> activeRulesCount,
         averageActivations |->
             IF activeRulesCount > 0
             THEN [num |-> totalActivations, den |-> activeRulesCount]
             ELSE [num |-> 0, den |-> 1]]

-----------------------------------------------------------------------------
(* createGameActionHandlers: the handlers it returns *)

\* A handler invocation runs from its call to its first await in one step, and
\* from the settling of an awaited ai.models.generateContent to the next await
\* or to its end in one step.  A handler can be called while invocations
\* await.  The handlers read gameHistory from the parameters they were created
\* with and write through setGameHistory; createGameActionHandlers can be
\* called again with the current history between any two steps.  The story
\* log, the choices, the custom action and the token counters are written on
\* the way and read by no handler; they are left out, and so is
\* parseApiResponseHandler, which writes nothing else and catches every
\* exception of its body (try at line 912, catch at lines 1039-1043).

\* a text: response.text, or the text of a history entry.  kind is "empty" for
\* a missing or blank text, "json" for a text JSON.parse turns into an object,
\* with the words of its normalized story and its choices (a list of strings),
\* "null" for the JSON text null, "other" for a text JSON.parse rejects, and
\* "prompt" for a user prompt
TextOf(kind, story, choices) == [kind |-> kind, story |-> story, choices |-> choices]
EmptyText  == TextOf("empty", <<>>, <<>>)
PromptText == TextOf("prompt", <<>>, <<>>)

\* a GameHistoryEntry with one part
HistoryEntry(role, text) == [role |-> role, text |-> text]

\* the call of a handler: its arguments, the gameHistory of its closure, and
\* what its awaited calls have settled to so far
CallOf(handler, action, pcEntity) ==
    [handler |-> handler, action |-> action, pcEntity |-> pcEntity,
     gameHistory |-> closureHistory, responses |-> <<>>]

\* a handler is called and runs to the await at, or to its end ("done")
Called(handler, action, pcEntity, at) ==
    /\ call' = Append(call, CallOf(handler, action, pcEntity))
    /\ hpc' = Append(hpc, at)

\* the awaited call of invocation i has settled to response, and the
\* invocation runs to the await at, or to its end ("done")
Settled(i, response, at) ==
    /\ call' = [call EXCEPT ![i].responses = Append(@, response)]
    /\ hpc' = [hpc EXCEPT ![i] = at]

\* the state of the handlers after createGameActionHandlers
HandlersInit(client, defaultKey, keyCount) ==
    /\ ai = client
    /\ isUsingDefaultKey = defaultKey
    /\ userApiKeyCount = keyCount
    /\ isLoading = FALSE
    /\ gameHistory = <<>>
    /\ turnCount = 0
    /\ rotateCalls = 0
    /\ closureHistory = <<>>
    /\ hpc = <<>>
    /\ call = <<>>

\* bound on the number of handler invocations of a behaviour
MaxInvocations == 2

\* createGameActionHandlers is called again, with the current history
CreateHandlers ==
    /\ closureHistory # gameHistory
    /\ closureHistory' = gameHistory
    /\ UNCHANGED <<ai, isUsingDefaultKey, userApiKeyCount, isLoading, gameHistory,
                   turnCount, rotateCalls, hpc, call>>
    /\ UNCHANGED engineVars

\* originalAction: action.trim(), without a trailing /\s+nsfw\s*$/i
OriginalActionOf(action) ==
    LET trimmed == Trim(action)
        n       == Len(trimmed)
    IN  IF /\ n >= 5
           /\ \A j \in 1..4 :
                 Canonicalize(trimmed[n - 4 + j], TRUE) = <<"N", "S", "F", "W">>[j]
           /\ IsSpace(trimmed[n - 4])
        THEN Trim(SubSeq(trimmed, 1, n - 4))
        ELSE trimmed

\* calculateTextSimilarity(text1, text2) > 0.9, on the words of the two texts
\* (text.split(' ')); the empty text has no word
VerySimilar(words1, words2) ==
    IF words1 = words2 THEN TRUE
    ELSE IF Len(words1) = 0 \/ Len(words2) = 0 THEN FALSE
    ELSE LET matches == Cardinality({i \in 1..Len(words1) :
                                       \E j \in 1..Len(words2) : words1[i] = words2[j]})
             longest == IF Len(words1) > Len(words2) THEN Len(words1) ELSE Len(words2)
         IN  10 * matches > 9 * longest

\* Array.prototype.join('|') on a list of strings
RECURSIVE JoinBar(_)
JoinBar(parts) ==
    IF parts = <<>> THEN <<>>
    ELSE IF Len(parts) = 1 THEN parts[1]
    ELSE parts[1] \o <<"|">> \o JoinBar(Tail(parts))

\* detectDuplicateResponse(responseText, gameHistory): reading .story of null
\* throws, in the outer try for the response and in the inner one for a past
\* response
detectDuplicateResponse(responseText, history) ==
    LET recentModelResponses ==
            LastN(SelectSeq(LastN(history, 6), LAMBDA e : e.role = "model"), 3)
        currentChoices == JoinBar(responseText.choices)
    IN  /\ responseText.kind = "json"
        /\ \E k \in 1..Len(recentModelResponses) :
              LET past == recentModelResponses[k].text
              IN  /\ past.kind = "json"
                  /\ \/ VerySimilar(responseText.story, past.story)
                     \/ /\ currentChoices = JoinBar(past.choices)
                        /\ Len(currentChoices) > 0

\* a test that takes every error for a rate limit
ShouldRotate_AnyError(message) ==
    ~isUsingDefaultKey /\ userApiKeyCount > 1

\* the test of the catch blocks before rotateKey(); message is error.toString()
ShouldRotate(message) ==
    ~isUsingDefaultKey /\ userApiKeyCount > 1 /\ Includes(message, <<"4", "2", "9">>)

\* the catch block alone: the loading flag is left as it is
CatchAndFinally_NoFinally(message) ==
    /\ rotateCalls' = IF ShouldRotate(message) THEN rotateCalls + 1 ELSE rotateCalls
    /\ UNCHANGED <<isLoading, gameHistory, turnCount>>

\* the catch and finally blocks of generateInitialStory and handleAction, for
\* an error of the try block
CatchAndFinally(message) ==
    /\ rotateCalls' = IF ShouldRotate(message) THEN rotateCalls + 1 ELSE rotateCalls
    /\ isLoading' = FALSE
    /\ UNCHANGED <<gameHistory, turnCount>>

\* generateInitialStory(worldData, knownEntities, pcEntity, initialHistory), up
\* to its await; pcEntity says that a player-character entity is given
GenerateInitialStory(pcEntity) ==
    /\ Len(call) < MaxInvocations
    /\ IF ~ai
       THEN /\ Called("generateInitialStory", <<>>, pcEntity, "done")
            /\ UNCHANGED <<isLoading, gameHistory>>
       ELSE IF ~pcEntity
       THEN /\ Called("generateInitialStory", <<>>, pcEntity, "done")
            /\ isLoading' = TRUE
            /\ UNCHANGED gameHistory
       ELSE /\ Called("generateInitialStory", <<>>, pcEntity, "story")
            /\ isLoading' = TRUE
            /\ gameHistory' = <<HistoryEntry("user", PromptText)>>
    /\ UNCHANGED <<ai, isUsingDefaultKey, userApiKeyCount, turnCount, rotateCalls,
                   closureHistory>>
    /\ UNCHANGED engineVars

\* generateInitialStory from the settling of its await to its end
StoryResponse(i, response) ==
    /\ hpc[i] = "story"
    /\ Settled(i, response, "done")
    /\ IF response.threw THEN CatchAndFinally(response.message)
       ELSE IF response.text.kind = "empty"
       THEN /\ isLoading' = FALSE
            /\ UNCHANGED <<gameHistory, turnCount, rotateCalls>>
       ELSE /\ gameHistory' = Append(gameHistory, HistoryEntry("model", response.text))
            /\ isLoading' = FALSE
            /\ UNCHANGED <<turnCount, rotateCalls>>
    /\ UNCHANGED <<ai, isUsingDefaultKey, userApiKeyCount, closureHistory>>
    /\ UNCHANGED engineVars

\* handleAction(action, currentGameState), up to its first await
HandleAction(action) ==
    /\ Len(call) < MaxInvocations
    /\ IF OriginalActionOf(action) = <<>> \/ ~ai
       THEN /\ Called("handleAction", action, TRUE, "done")
            /\ UNCHANGED isLoading
       ELSE /\ Called("handleAction", action, TRUE, "action")
            /\ isLoading' = TRUE
    /\ UNCHANGED <<ai, isUsingDefaultKey, userApiKeyCount, gameHistory, turnCount,
                   rotateCalls, closureHistory>>
    /\ UNCHANGED engineVars

\* the two entries without setTurnCount
AppendTurn_KeepsTurn(text) ==
    /\ gameHistory' = gameHistory \o <<HistoryEntry("user", PromptText),
                                        HistoryEntry("model", text)>>
    /\ isLoading' = FALSE
    /\ UNCHANGED <<turnCount, rotateCalls>>

\* setGameHistory(prev => [...prev, newUserEntry, {role: 'model', ...}]) and
\* setTurnCount(prev => prev + 1), then the finally block
AppendTurn(text) ==
    /\ gameHistory' = gameHistory \o <<HistoryEntry("user", PromptText),
                                        HistoryEntry("model", text)>>
    /\ turnCount' = turnCount + 1
    /\ isLoading' = FALSE
    /\ UNCHANGED rotateCalls

\* handleAction from the settling of its first await to the retry's await or
\* to its end; the gameHistory of detectDuplicateResponse is that of the
\* closure
ActionResponse(i, response) ==
    /\ hpc[i] = "action"
    /\ IF response.threw
       THEN Settled(i, response, "done") /\ CatchAndFinally(response.message)
       ELSE IF response.text.kind = "empty"
       THEN /\ Settled(i, response, "done")
            /\ isLoading' = FALSE
            /\ UNCHANGED <<gameHistory, turnCount, rotateCalls>>
       ELSE IF detectDuplicateResponse(response.text, call[i].gameHistory)
       THEN /\ Settled(i, response, "retry")
            /\ UNCHANGED <<isLoading, gameHistory, turnCount, rotateCalls>>
       ELSE Settled(i, response, "done") /\ AppendTurn(response.text)
    /\ UNCHANGED <<ai, isUsingDefaultKey, userApiKeyCount, closureHistory>>
    /\ UNCHANGED engineVars

\* handleAction from the settling of the retry's await to its end
RetryResponse(i, response) ==
    /\ hpc[i] = "retry"
    /\ Settled(i, response, "done")
    /\ IF response.threw THEN CatchAndFinally(response.message)
       ELSE IF response.text.kind = "empty"
       THEN AppendTurn(call[i].responses[1].text)
       ELSE AppendTurn(response.text)
    /\ UNCHANGED <<ai, isUsingDefaultKey, userApiKeyCount, closureHistory>>
    /\ UNCHANGED engineVars

\* handleSuggestAction(storyLog, currentGameState), up to its await
HandleSuggestAction ==
    /\ Len(call) < MaxInvocations
    /\ IF ~ai
       THEN /\ Called("handleSuggestAction", <<>>, TRUE, "done")
            /\ UNCHANGED isLoading
       ELSE /\ Called("handleSuggestAction", <<>>, TRUE, "suggest")
            /\ isLoading' = TRUE
    /\ UNCHANGED <<ai, isUsingDefaultKey, userApiKeyCount, gameHistory, turnCount,
                   rotateCalls, closureHistory>>
    /\ UNCHANGED engineVars

\* handleSuggestAction from the settling of its await to its end: the custom
\* action is set from the response or in the catch block, then the finally
\* block
SuggestResponse(i, response) ==
    /\ hpc[i] = "suggest"
    /\ hpc' = [hpc EXCEPT ![i] = "done"]
    /\ UNCHANGED call
    /\ isLoading' = FALSE
    /\ UNCHANGED <<ai, isUsingDefaultKey, userApiKeyCount, gameHistory, turnCount,
                   rotateCalls, closureHistory>>
    /\ UNCHANGED engineVars

-----------------------------------------------------------------------------
(* Inputs *)

\* a CustomRule with every optional field unset and the empty content
BaseRule(id) ==
    [id |-> id, isActive |-> TRUE, alwaysActive |-> FALSE,
     keywords |-> <<>>, secondaryKeywords |-> <<>>, logic |-> <<>>,
     caseSensitive |-> <<>>, matchWholeWords |-> <<>>, scanDepth |-> <<>>,
     scanPlayerInput |-> <<>>, scanAIOutput |-> <<>>, scanMemories |-> <<>>,
     tokenWeight |-> <<>>, probability |-> <<>>, maxActivationsPerTurn |-> <<>>,
     order |-> <<>>, lastActivated |-> <<>>, activationCount |-> <<>>,
     content |-> <<<<>>>>, title |-> <<>>]

\* an ActivationContext with every optional field unset
BaseContext ==
    [playerInput |-> <<>>, aiResponse |-> <<>>, gameHistory |-> <<>>,
     memories |-> <<>>, currentTurn |-> <<>>, scanDepth |-> <<>>,
     tokenBudget |-> <<>>, caseSensitive |-> <<>>, matchWholeWords |-> <<>>]

sCat   == <<"c", "a", "t">>
sB     == <<"b">>
sBlank == <<" ">>
sText1 == <<"a", " ", "C", "a", "t">>
sText2 == <<"c", "a", "t", " ", "b">>
sText3 == <<"c", "a", "t", "b">>
sLore  == <<"a", "b", "c", "a", "b">>

\* the rules the pools are made of
RuleR1 == [BaseRule("r1") EXCEPT !.alwaysActive = TRUE, !.order = <<10>>,
                                 !.tokenWeight = <<3000>>, !.content = <<>>]
RuleR2 == [BaseRule("r2") EXCEPT !.keywords = <<sCat>>, !.order = <<5>>,
                                 !.tokenWeight = <<3000>>, !.title = sB]
RuleR3 == [BaseRule("r3") EXCEPT !.alwaysActive = TRUE, !.tokenWeight = <<3000>>,
                                 !.maxActivationsPerTurn = <<1>>]
RuleR4 == [BaseRule("r4") EXCEPT !.isActive = FALSE, !.alwaysActive = TRUE,
                                 !.keywords = <<sCat>>, !.order = <<10>>,
                                 !.tokenWeight = <<1000>>]
RuleR5 == [BaseRule("r5") EXCEPT !.alwaysActive = TRUE, !.order = <<5>>,
                                 !.content = <<sLore>>, !.probability = <<50>>,
                                 !.maxActivationsPerTurn = <<2>>]

RuleCatalog == <<RuleR1, RuleR2, RuleR3, RuleR4, RuleR5>>

\* bound on the number of rules of a pool
MaxRules == 4

\* the rules of the catalog at the positions S, in the catalog's order
PoolOf(S) ==
    LET at == SelectSeq([i \in 1..Len(RuleCatalog) |-> i], LAMBDA i : i \in S)
    IN  [k \in 1..Len(at) |-> RuleCatalog[at[k]]]

\* the pools: up to MaxRules different rules of the catalog
Pools ==
    {PoolOf(S) : S \in {T \in SUBSET (1..Len(RuleCatalog)) :
                            Cardinality(T) >= 1 /\ Cardinality(T) <= MaxRules}}

\* the contexts a call is made with
ContextTurns   == {<<>>, <<1>>}
ContextBudgets == {<<>>, <<0>>, <<4000>>}

Contexts ==
    {[BaseContext EXCEPT !.playerInput = sCat, !.currentTurn = n, !.tokenBudget = b] :
        n \in ContextTurns, b \in ContextBudgets}
    \cup {BaseContext}

-----------------------------------------------------------------------------
(* The engine on a pool of rules *)

EngineInit(pool) ==
    /\ rules = pool
    /\ activationHistory = <<>>
    /\ pc = "idle"
    /\ context = BaseContext
    /\ activeRules = <<>>
    /\ idx = 0
    /\ activated = <<>>
    /\ skipped = <<>>
    /\ totalTokens = 0
    /\ log = <<>>
    /\ result = <<>>
    /\ calls = 0
    /\ sinceClear = 0
    /\ prompt = <<>>
    /\ admitted = <<>>

\* the engine with the pool its caller holds; no handler runs
InitWith(pool) == EngineInit(pool) /\ HandlersInit(FALSE, TRUE, 0)

Init == \E pool \in Pools : InitWith(pool)

Next ==
    \/ \E ctx \in Contexts : ProcessRulesStart(ctx)
    \/ ProcessRule
    \/ ProcessRulesReturn
    \/ ClearHistory
    \/ FormatForPrompt

Spec == Init /\ [][Next]_vars

-----------------------------------------------------------------------------
(* The keyword logic of one rule, over every keyword configuration *)

\* bound on the number of keywords (primary plus secondary) of a rule
MaxKeywords == 3

LogicKeywords == {sCat, sB, sBlank}

\* the lists of n keywords
KeywordLists(n) == [1..n -> LogicKeywords]

\* (caseSensitive, matchWholeWords) of the rule
LogicFlags == {<< <<>>, <<>> >>, << <<TRUE>>, <<>> >>, << <<>>, <<TRUE>> >>}

LogicRule(kw, sk, lg, aa, fl) ==
    [BaseRule("q") EXCEPT !.keywords = kw, !.secondaryKeywords = sk,
                          !.logic = lg, !.alwaysActive = aa,
                          !.caseSensitive = fl[1], !.matchWholeWords = fl[2]]

LogicTexts == {sCat, sB, sText1, sText2, sText3}

LogicContexts == {[BaseContext EXCEPT !.playerInput = t] : t \in LogicTexts}

\* one call per behaviour: the rules have no cap, no weight and no probability,
\* so the evaluation does not depend on earlier calls
InitLogic ==
    \E n \in 0..MaxKeywords :
        \E m \in 0..(MaxKeywords - n) :
            \E kw \in KeywordLists(n), sk \in KeywordLists(m),
               lg \in {<<>>} \cup {<<md>> : md \in RuleLogic},
               aa \in BOOLEAN, fl \in LogicFlags :
                InitWith(<<LogicRule(kw, sk, lg, aa, fl)>>)

NextLogic ==
    \/ \E ctx \in LogicContexts : calls = 0 /\ ProcessRulesStart(ctx)
    \/ ProcessRule
    \/ ProcessRulesReturn
    \/ ClearHistory

SpecLogic == InitLogic /\ [][NextLogic]_vars

-----------------------------------------------------------------------------
(* The matching of one keyword, over texts with word and non-word neighbours *)

sCatSat   == <<"a", " ", "c", "a", "t", " ", "s", "a", "t">>
sCategory == <<"c", "a", "t", "e", "g", "o", "r", "y">>
sCatUp    == <<"C", "a", "t">>
sUnderCat == <<"_", "c", "a", "t">>
sCatBang  == <<"c", "a", "t", "!">>
sCatBangS == <<"c", "a", "t", "!", "s">>

\* with two keywords outside ASCII letters: "Dem" with D with stroke and
\* e circumflex, and a tab
MatchKeywords == {sCat, sCatBang, <<"U+0110", "U+00EA", "m">>, <<"\t">>}

\* with the lower case of the third keyword, and a text that ends in a tab
MatchTexts ==
    {sCatSat, sCategory, sCatUp, sUnderCat, sCatBang, sCatBangS,
     <<"U+0111", "U+00EA", "m">>, <<"c", "a", "t", "\t">>}

\* a keyword rule with the keyword kw and the flags cs, ww
MatchRule(kw, cs, ww) ==
    [BaseRule("m") EXCEPT !.keywords = <<kw>>, !.caseSensitive = cs,
                          !.matchWholeWords = ww]

\* caseSensitive and matchWholeWords are unset or true on the context, and
\* unset, true or false on the rule
MatchContexts ==
    {[BaseContext EXCEPT !.playerInput = t, !.caseSensitive = cs,
                         !.matchWholeWords = ww] :
        t \in MatchTexts, cs \in {<<>>, <<TRUE>>}, ww \in {<<>>, <<TRUE>>}}

InitMatch ==
    \E kw \in MatchKeywords, cs \in {<<>>, <<TRUE>>, <<FALSE>>},
       ww \in {<<>>, <<TRUE>>, <<FALSE>>} :
        InitWith(<<MatchRule(kw, cs, ww)>>)

NextMatch ==
    \/ \E ctx \in MatchContexts : calls = 0 /\ ProcessRulesStart(ctx)
    \/ ProcessRule
    \/ ProcessRulesReturn
    \/ ClearHistory

SpecMatch == InitMatch /\ [][NextMatch]_vars

-----------------------------------------------------------------------------
(* The scan text of one rule, over game histories and memory lists *)

\* the texts of the context: each is a word of its own, so that a matched
\* keyword tells which text is in the scan text
sPlayer == <<"p", "i">>
sAI     == <<"a", "i">>
HistoryToken(j) == <<"h", Digits[j + 1]>>
MemoryToken(j)  == <<"k", Digits[j + 1]>>

\* bounds on the length of the enumerated histories and memory lists
MaxHistory  == 4
MaxMemories == 2

\* the roles of one longer history
LongRoles == <<"model", "user", "model", "user", "model", "user", "model">>

\* a game history with the given roles; every entry has one part
HistoryOfRoles(roles) ==
    [j \in 1..Len(roles) |-> [role |-> roles[j], parts |-> <<HistoryToken(j)>>]]

ScanHistories ==
    {HistoryOfRoles(r) : r \in UNION {[1..n -> {"user", "model"}] : n \in 0..MaxHistory}}
    \cup {HistoryOfRoles(LongRoles)}

\* the pinned flag and the importance of a memory
MemoryKinds ==
    {[pinned |-> FALSE, importance |-> <<>>],
     [pinned |-> TRUE,  importance |-> <<71>>],
     [pinned |-> TRUE,  importance |-> <<70>>],
     [pinned |-> TRUE,  importance |-> <<>>]}

MemoriesOfKinds(kinds) ==
    [j \in 1..Len(kinds) |-> [text |-> MemoryToken(j), pinned |-> kinds[j].pinned,
                              importance |-> kinds[j].importance]]

ScanMemoryLists ==
    {MemoriesOfKinds(k) : k \in UNION {[1..n -> MemoryKinds] : n \in 0..MaxMemories}}
    \cup {MemoriesOfKinds([j \in 1..Len(LongRoles) |->
                               [pinned |-> j = 6, importance |-> <<>>]])}

ScanContexts ==
    {[BaseContext EXCEPT !.playerInput = sPlayer, !.aiResponse = sAI,
                         !.gameHistory = h, !.scanDepth = d] :
        h \in ScanHistories, d \in {<<>>, <<2>>}}
    \cup {[BaseContext EXCEPT !.playerInput = sPlayer, !.aiResponse = sAI,
                              !.memories = m, !.scanDepth = d] :
        m \in ScanMemoryLists, d \in {<<>>, <<2>>}}
    \cup {BaseContext}

\* every text of a context, as the keywords of the rule
ScanKeywords ==
    <<sPlayer, sAI>> \o [j \in 1..Len(LongRoles) |-> HistoryToken(j)]
                     \o [j \in 1..Len(LongRoles) |-> MemoryToken(j)]

\* a rule that matches any text of the context, with its depth and toggles
ScanRule(depth, player, aiOut, mem) ==
    [BaseRule("s") EXCEPT !.keywords = ScanKeywords, !.scanDepth = depth,
                          !.scanPlayerInput = player, !.scanAIOutput = aiOut,
                          !.scanMemories = mem]

-----------------------------------------------------------------------------
(* The handlers, over responses of the AI client *)

\* what an awaited generateContent settles to: a response with a text, or an
\* error with its error.toString().  The two JSON objects differ in their
\* stories and in their lists of choices, which are equal once joined
Responses ==
    {[threw |-> FALSE, text |-> t, message |-> <<>>] :
        t \in {EmptyText,
               TextOf("json", <<"a", "b">>, <<<<"x", "|", "z">>>>),
               TextOf("json", <<"d">>, <<<<"x">>, <<"z">>>>),
               TextOf("null", <<>>, <<>>)}}
    \cup {[threw |-> TRUE, text |-> EmptyText, message |-> m] :
             m \in {<<"E", "4", "2", "9">>, <<"E", "5", "0", "0">>}}

\* the action argument of handleAction
Actions == {<<"\t">>, <<"g", "o", " ", "N", "s", "f", "w", " ">>, <<"n", "s", "f", "w">>}

InitGame ==
    /\ EngineInit(<<>>)
    /\ \E client \in BOOLEAN, keys \in {<<TRUE, 2>>, <<FALSE, 1>>, <<FALSE, 2>>} :
          HandlersInit(client, keys[1], keys[2])

\* the awaited call of invocation i settles
RespondTo(i) ==
    /\ i \in 1..Len(call)
    /\ \E response \in Responses :
          \/ StoryResponse(i, response)
          \/ ActionResponse(i, response)
          \/ RetryResponse(i, response)
          \/ SuggestResponse(i, response)

NextGame ==
    \/ \E pcEntity \in BOOLEAN : GenerateInitialStory(pcEntity)
    \/ \E action \in Actions : HandleAction(action)
    \/ HandleSuggestAction
    \/ \E i \in 1..Len(call) : RespondTo(i)
    \/ CreateHandlers

SpecGame == InitGame /\ [][NextGame]_vars

InitScan ==
    \/ \E depth \in {<<>>, <<1>>, <<10>>}, player \in {<<>>, <<FALSE>>},
          aiOut \in {<<>>, <<FALSE>>}, mem \in {<<>>, <<FALSE>>} :
            InitWith(<<ScanRule(depth, player, aiOut, mem)>>)
    \/ InitWith(<<ScanRule(<<1>>, <<TRUE>>, <<TRUE>>, <<TRUE>>)>>)

NextScan ==
    \/ \E ctx \in ScanContexts : calls = 0 /\ ProcessRulesStart(ctx)
    \/ ProcessRule
    \/ ProcessRulesReturn
    \/ ClearHistory

SpecScan == InitScan /\ [][NextScan]_vars

\* the scan text of a rule whose scan depth is 0, next to the depths above
InitDepth ==
    \E depth \in {<<>>, <<0>>, <<1>>, <<10>>}, player \in {<<>>, <<FALSE>>} :
        InitWith(<<ScanRule(depth, player, <<>>, <<>>)>>)

SpecDepth == InitDepth /\ [][NextScan]_vars

-----------------------------------------------------------------------------
(* The token cost of a rule, over token weights and contents *)

CostWeights  == {<<>>, <<0>>, <<7>>}

\* no content, the empty content, a content of 4 characters and one of 5
CostContents ==
    {<<>>, <<<<>>>>, <<<<"l", "o", "r", "e">>>>, <<<<"l", "o", "r", "e", "s">>>>}

\* a rule that is always active, with its token weight and content
CostRule(id, weight, content) ==
    [BaseRule(id) EXCEPT !.alwaysActive = TRUE, !.tokenWeight = weight,
                         !.content = content]

CostPools ==
    {<<CostRule("c1", w, c)>> : w \in CostWeights, c \in CostContents}
    \cup {<<CostRule("c1", w[1], c[1]), CostRule("c2", w[2], c[2])>> :
             w \in CostWeights \X CostWeights, c \in CostContents \X CostContents}

InitCost == \E pool \in CostPools : InitWith(pool)

\* no budget, a negative budget, and budgets of one and of two of the weights
CostContexts ==
    {[BaseContext EXCEPT !.playerInput = sCat, !.tokenBudget = b] :
        b \in {<<>>, <<-1>>, <<7>>, <<14>>}}

NextCost ==
    \/ \E ctx \in CostContexts : calls = 0 /\ ProcessRulesStart(ctx)
    \/ ProcessRule
    \/ ProcessRulesReturn
    \/ ClearHistory

SpecCost == InitCost /\ [][NextCost]_vars

-----------------------------------------------------------------------------
(* The per-turn cap, over pools that list a rule id more than once *)

Caps == {<<1>>, <<2>>}

\* a constant rule with a cap
CapRule(id, cap) ==
    [BaseRule(id) EXCEPT !.alwaysActive = TRUE, !.maxActivationsPerTurn = cap]

\* pools of two and three copies of a rule, and of two copies beside a rule
\* of another id
CapPools ==
    {<<CapRule("d", c), CapRule("d", c)>> : c \in Caps}
    \cup {<<CapRule("d", c), CapRule("d", c), CapRule("d", c)>> : c \in Caps}
    \cup {<<CapRule("d", c), CapRule("e", <<1>>), CapRule("d", c)>> : c \in Caps}

CapContexts ==
    {[BaseContext EXCEPT !.playerInput = sCat, !.currentTurn = t] :
        t \in {<<>>, <<1>>, <<2>>}}

InitCap == \E pool \in CapPools : InitWith(pool)

NextCap ==
    \/ \E ctx \in CapContexts : ProcessRulesStart(ctx)
    \/ ProcessRule
    \/ ProcessRulesReturn
    \/ ClearHistory

SpecCap == InitCap /\ [][NextCap]_vars

-----------------------------------------------------------------------------
(* The gates of processRules, over rules that each gate rejects *)

\* a rule with a keyword that is not a string
RuleG1 == [BaseRule("g1") EXCEPT !.keywords = <<sCat, NotAString>>, !.order = <<5>>,
                                 !.tokenWeight = <<3000>>]
\* a keyword rule
RuleG2 == [BaseRule("g2") EXCEPT !.keywords = <<sCat>>, !.order = <<5>>,
                                 !.tokenWeight = <<3000>>]
\* a rule without keywords in MatchNoneOf mode, costing more than the budget
RuleG3 == [BaseRule("g3") EXCEPT !.logic = <<"NOT_ANY">>, !.order = <<-1>>,
                                 !.tokenWeight = <<6000>>]
\* a constant rule with a cap
RuleG4 == [BaseRule("g4") EXCEPT !.alwaysActive = TRUE, !.order = <<5>>,
                                 !.tokenWeight = <<2000>>,
                                 !.maxActivationsPerTurn = <<1>>]
\* a constant rule with probability p
RuleG5(p) == [BaseRule("g5") EXCEPT !.alwaysActive = TRUE, !.content = <<sLore>>,
                                    !.probability = p]

\* a keyword rule that is not active
RuleG6 == [BaseRule("g6") EXCEPT !.isActive = FALSE, !.keywords = <<sCat>>,
                                 !.order = <<9>>]

Probabilities == {<<-1>>, <<0>>, <<50>>, <<100>>, <<101>>}

GateCatalog(p) == <<RuleG3, RuleG5(p), RuleG2, RuleG1, RuleG4, RuleG6>>

\* the rules of GateCatalog(p) at the positions S, in the catalog's order
GatePoolOf(S, p) ==
    LET at == SelectSeq([i \in 1..Len(GateCatalog(p)) |-> i], LAMBDA i : i \in S)
    IN  [k \in 1..Len(at) |-> GateCatalog(p)[at[k]]]

GatePools ==
    {GatePoolOf(S, p) : S \in {T \in SUBSET (1..Len(GateCatalog(<<>>))) :
                                  Cardinality(T) >= 1 /\ Cardinality(T) <= MaxRules},
                        p \in Probabilities}

GateTexts == {<<>>, sCat, sB}

GateContexts == {[BaseContext EXCEPT !.playerInput = t] : t \in GateTexts}

InitGates == \E pool \in GatePools : InitWith(pool)

NextGates ==
    \/ \E ctx \in GateContexts : ProcessRulesStart(ctx)
    \/ ProcessRule
    \/ ProcessRulesReturn
    \/ ClearHistory

SpecGates == InitGates /\ [][NextGates]_vars

\* the pools of the catalog without a probability, each as it is, with a null
\* entry in front of its rules and with a null entry behind them
FailPools ==
    LET pools == {GatePoolOf(S, <<>>) :
                     S \in {T \in SUBSET (1..Len(GateCatalog(<<>>))) :
                               Cardinality(T) >= 1 /\ Cardinality(T) <= MaxRules}}
    IN  pools \cup {<<NullRule>> \o pool : pool \in pools}
              \cup {pool \o <<NullRule>> : pool \in pools}

InitFail == \E pool \in FailPools : InitWith(pool)

SpecFail == InitFail /\ [][NextGates]_vars

-----------------------------------------------------------------------------
(* Properties of processRules *)

\* the pool positions listed in a list of ActivatedRule
ActivatedPositions(acts) == {acts[k].rule : k \in 1..Len(acts)}

\* the pool positions listed in a list of rules
ListedPositions(list) == {list[k] : k \in 1..Len(list)}

\* a pass is running or has returned, and e is one of its console entries
PassEntries == 1..Len(log)

\* the running total before the rule of entry n was decided: the costs of the
\* rules admitted earlier in the pass
RECURSIVE TotalBefore(_)
TotalBefore(n) ==
    IF n <= 1 THEN 0
    ELSE TotalBefore(n - 1)
         + (IF log[n - 1].outcome = "activated"
            THEN TokenCostOf(rules[log[n - 1].rule]) ELSE 0)

\* C1: no rule whose isActive flag is false appears in the activated or in the
\* skipped list, during the pass or in the returned result, whatever its
\* keywords, alwaysActive flag, probability or cap
C1_InactiveNeverListed ==
    \A i \in 1..Len(rules) :
        ~rules[i].isActive =>
            /\ i \notin ActivatedPositions(activated)
            /\ i \notin ListedPositions(skipped)
            /\ result # <<>> =>
                 /\ i \notin ActivatedPositions(result[1].activatedRules)
                 /\ i \notin ListedPositions(result[1].skippedRules)

\* C1 witness: a call has returned a non-empty result for a pool that holds an
\* inactive always-active rule with a matching keyword
C1_Witness ==
    /\ result # <<>>
    /\ Len(result[1].activatedRules) > 0
    /\ Len(result[1].skippedRules) > 0
    /\ \E i \in 1..Len(rules) :
          /\ ~rules[i].isActive
          /\ rules[i].alwaysActive
          /\ keywordMatches(context.playerInput, rules[i].keywords[1], <<>>, <<>>)

\* the budget the claim gives a turn: context.tokenBudget, or 5000 when unspecified
StatedBudget(ctx) ==
    IF ctx.tokenBudget = <<>> THEN DefaultTokenBudget ELSE ctx.tokenBudget[1]

\* C2: at the moment a rule is admitted the running total plus its cost is at
\* most the turn's token budget (context.tokenBudget, or 5000 when unspecified),
\* hence the running total never exceeds that budget during the pass
C2_TotalWithinStatedBudget ==
    /\ totalTokens <= StatedBudget(context)
    /\ \A n \in PassEntries :
          log[n].outcome = "activated" =>
              TotalBefore(n) + TokenCostOf(rules[log[n].rule]) <= StatedBudget(context)

\* C3: once a rule has been rejected for the budget, no rule after it in the
\* pass is admitted
C3_NoAdmissionAfterBudgetReject ==
    \A a, b \in PassEntries :
        (a < b /\ log[a].outcome = "budget") => log[b].outcome # "activated"

\* C3 (amended): a rule admitted after a budget rejection of the same pass fits
\* in the remaining budget and costs strictly less than the rejected rule
C3_LaterAdmissionIsCheaper ==
    \A a, b \in PassEntries :
        (a < b /\ log[a].outcome = "budget" /\ log[b].outcome = "activated") =>
            /\ TokenCostOf(rules[log[b].rule]) < TokenCostOf(rules[log[a].rule])
            /\ TotalBefore(b) + TokenCostOf(rules[log[b].rule]) <= TokenBudgetOf(context)

\* C3 witness: a rule was admitted after another one was rejected for the budget
C3_Witness ==
    \E a, b \in PassEntries :
        /\ a < b
        /\ log[a].outcome = "budget"
        /\ log[b].outcome = "activated"
        /\ TotalBefore(b) > 0

\* an optional number a is at most the optional number b (undefined is least)
OptLeq(a, b) == a = <<>> \/ (b # <<>> /\ a[1] <= b[1])

\* C4: activationCount and lastActivated of every rule never decrease
C4_MetadataNeverDecreases ==
    [][\A i \in 1..Len(rules) :
          /\ OptLeq(rules[i].activationCount, rules'[i].activationCount)
          /\ OptLeq(rules[i].lastActivated, rules'[i].lastActivated)]_vars

\* C4 (amended): activationCount never decreases, and lastActivated does not
\* decrease in a call whose turn number is at least the rule's lastActivated;
\* an admission sets lastActivated to the call's turn number
C4_MetadataMonotoneInTurn ==
    [][\A i \in 1..Len(rules) :
          /\ OptLeq(rules[i].activationCount, rules'[i].activationCount)
          /\ OptLeq(rules[i].lastActivated, <<CurrentTurnOf(context)>>)
                => OptLeq(rules[i].lastActivated, rules'[i].lastActivated)
          /\ rules'[i].lastActivated # rules[i].lastActivated
                => rules'[i].lastActivated = <<CurrentTurnOf(context)>>]_vars

\* C4 witness: a rule admitted in two calls with increasing turn numbers
C4_Witness ==
    \E i \in 1..Len(rules) :
        /\ rules[i].activationCount = <<2>>
        /\ rules[i].lastActivated = <<1>>
        /\ HistoryOf(activationHistory, rules[i].id) = <<0, 1>>

\* the entries of a rule's history equal to the call's turn, before the rule of
\* entry n was decided (the rule ids of a pool are distinct)
TurnCountBefore(n) ==
    CountTurn(HistoryOf(activationHistory, rules[log[n].rule].id), CurrentTurnOf(context))
    - (IF log[n].outcome = "activated" THEN 1 ELSE 0)

\* C5: a rule with maxActivationsPerTurn = c > 0 whose history holds at least c
\* entries equal to the current turn is not activated and is recorded as
\* skipped; with fewer than c such entries it passes the cap gate
C5_PerTurnCap ==
    \A n \in PassEntries :
        LET i   == log[n].rule
            cap == rules[i].maxActivationsPerTurn
        IN  (cap # <<>> /\ cap[1] > 0) =>
              /\ log[n].outcome = "cap" =>
                    /\ i \in ListedPositions(skipped)
                    /\ i \notin ActivatedPositions(activated)
                    /\ result # <<>> =>
                          /\ i \in ListedPositions(result[1].skippedRules)
                          /\ i \notin ActivatedPositions(result[1].activatedRules)
              /\ pc = "loop" =>
                    /\ TurnCountBefore(n) >= cap[1] => log[n].outcome = "cap"
                    /\ TurnCountBefore(n) < cap[1] => log[n].outcome # "cap"

\* C5 witness: a rule with cap 1 was admitted for turn 0, admitted again for
\* turn 1, and is now blocked when evaluated once more for turn 1
C5_Witness ==
    /\ pc = "loop"
    /\ CurrentTurnOf(context) = 1
    /\ \E n \in PassEntries :
          /\ log[n].outcome = "cap"
          /\ rules[log[n].rule].maxActivationsPerTurn = <<1>>
          /\ HistoryOf(activationHistory, rules[log[n].rule].id) = <<0, 1>>

\* C10: when a rule is rejected for the budget, the running total holds only
\* costs of rules whose order is at least the rejected rule's; with R1 (order 10,
\* cost 3000), R2 (order 5, cost 3000) and budget 5000, both otherwise eligible,
\* only R1 is activated, R2 is skipped and budgetExceeded is false
C10_GreedyByPriority ==
    /\ pc = "loop" => totalTokens = TotalBefore(Len(log) + 1)
    /\ \A a, b \in PassEntries :
          (b < a /\ log[a].outcome = "budget" /\ log[b].outcome = "activated") =>
              OrderOf(rules[log[b].rule]) >= OrderOf(rules[log[a].rule])
    /\ ( /\ result # <<>>
         /\ Len(rules) = 2
         /\ \A i \in 1..2 : rules[i].isActive /\ TokenCostOf(rules[i]) = 3000
         /\ OrderOf(rules[1]) = 10
         /\ OrderOf(rules[2]) = 5
         /\ TokenBudgetOf(context) = 5000
         /\ \A n \in PassEntries : log[n].outcome \in {"budget", "activated"} )
       => /\ ActivatedPositions(result[1].activatedRules) = {1}
          /\ result[1].skippedRules = <<2>>
          /\ result[1].totalTokens = 3000
          /\ ~result[1].budgetExceeded

\* C10 witness: the call with R1, R2 and budget 5000 has returned, R2 rejected
\* for the budget
C10_Witness ==
    /\ result # <<>>
    /\ Len(rules) = 2
    /\ OrderOf(rules[1]) = 10 /\ TokenCostOf(rules[1]) = 3000
    /\ OrderOf(rules[2]) = 5 /\ TokenCostOf(rules[2]) = 3000
    /\ TokenBudgetOf(context) = 5000
    /\ Len(log) = 2
    /\ log[1] = [rule |-> 1, outcome |-> "activated", draw |-> <<>>]
    /\ log[2] = [rule |-> 2, outcome |-> "budget", draw |-> <<>>]

-----------------------------------------------------------------------------
(* Properties of the keyword logic *)

\* the positions of the keywords of a list that are found in the rule's scan
\* text (a blank keyword is never found)
FoundIn(list, rule, ctx) ==
    {k \in 1..Len(list) :
        keywordMatches(collectScanText(rule, ctx), list[k],
                       CaseSensitiveOf(rule, ctx), MatchWholeWordsOf(rule, ctx))}

\* the number of matched keywords, primary plus secondary
MatchedCount(rule, ctx) ==
    Cardinality(FoundIn(rule.keywords, rule, ctx))
    + Cardinality(FoundIn(rule.secondaryKeywords, rule, ctx))

\* the number of configured keywords, primary plus secondary
ConfiguredCount(rule) == Len(rule.keywords) + Len(rule.secondaryKeywords)

\* the rule of entry n reached the logic evaluation / was activated by it
ReachedLogic(n) == log[n].outcome \in {"logic", "budget", "activated"}
LogicActivated(n) == log[n].outcome \in {"budget", "activated"}

\* the ActivatedRule entries of a list for pool position i carry no keywords
NoMatchedKeywords(acts, i) ==
    \A k \in 1..Len(acts) : acts[k].rule = i => acts[k].matchedKeywords = <<>>

\* C6: an active alwaysActive rule with non-empty scan text is activated unless
\* the cap, probability or budget gate rejects it, whatever its keywords and
\* logic mode, and its activated entry has an empty matchedKeywords list
C6_AlwaysActive ==
    \A n \in PassEntries :
        LET i == log[n].rule
        IN  (rules[i].alwaysActive /\ collectScanText(rules[i], context) # <<>>) =>
              /\ log[n].outcome \in {"cap", "probability", "budget", "activated"}
              /\ NoMatchedKeywords(activated, i)
              /\ result # <<>> => NoMatchedKeywords(result[1].activatedRules, i)

\* C6 witness: an alwaysActive rule in MatchAllOf mode, none of whose keywords
\* is found, is in the returned activated list
C6_Witness ==
    /\ result # <<>>
    /\ \E k \in 1..Len(result[1].activatedRules) :
          LET rule == rules[result[1].activatedRules[k].rule]
          IN  /\ rule.alwaysActive
              /\ LogicOf(rule) = "AND_ALL"
              /\ ConfiguredCount(rule) >= 2
              /\ MatchedCount(rule, context) = 0

\* C7: a non-alwaysActive MatchAllOf rule with at least one keyword activates
\* iff every configured primary and every configured secondary keyword is found
C7_MatchAllOf ==
    \A n \in PassEntries :
        LET rule == rules[log[n].rule]
        IN  ( /\ ~rule.alwaysActive
              /\ LogicOf(rule) = "AND_ALL"
              /\ ConfiguredCount(rule) >= 1
              /\ ReachedLogic(n) ) =>
            ( LogicActivated(n) <=>
                /\ FoundIn(rule.keywords, rule, context) = 1..Len(rule.keywords)
                /\ FoundIn(rule.secondaryKeywords, rule, context)
                      = 1..Len(rule.secondaryKeywords) )

\* C7 witness: a MatchAllOf rule with primary and secondary keywords, all found,
\* was activated
C7_Witness ==
    \E n \in PassEntries :
        LET rule == rules[log[n].rule]
        IN  /\ ~rule.alwaysActive
            /\ LogicOf(rule) = "AND_ALL"
            /\ Len(rule.keywords) >= 1
            /\ Len(rule.secondaryKeywords) >= 1
            /\ log[n].outcome = "activated"

\* C8: a non-alwaysActive MatchNotAll rule activates iff the number of matched
\* keywords is above 0 and below the number of configured keywords
C8_MatchNotAll ==
    \A n \in PassEntries :
        LET rule == rules[log[n].rule]
        IN  ( /\ ~rule.alwaysActive
              /\ LogicOf(rule) = "NOT_ALL"
              /\ ReachedLogic(n) ) =>
            ( LogicActivated(n) <=>
                /\ MatchedCount(rule, context) > 0
                /\ MatchedCount(rule, context) < ConfiguredCount(rule) )

\* C8 witness: a MatchNotAll rule with one of its two keywords matched was
\* activated
C8_Witness ==
    \E n \in PassEntries :
        LET rule == rules[log[n].rule]
        IN  /\ ~rule.alwaysActive
            /\ LogicOf(rule) = "NOT_ALL"
            /\ ConfiguredCount(rule) = 2
            /\ MatchedCount(rule, context) = 1
            /\ log[n].outcome = "activated"

\* C9: a non-alwaysActive MatchNoneOf rule with at least one keyword activates
\* iff no keyword of either list matches
C9_MatchNoneOf ==
    \A n \in PassEntries :
        LET rule == rules[log[n].rule]
        IN  ( /\ ~rule.alwaysActive
              /\ LogicOf(rule) = "NOT_ANY"
              /\ ConfiguredCount(rule) >= 1
              /\ ReachedLogic(n) ) =>
            ( LogicActivated(n) <=> MatchedCount(rule, context) = 0 )

\* C9 witness: a MatchNoneOf rule whose only match is a secondary keyword was
\* rejected by the logic
C9_Witness ==
    \E n \in PassEntries :
        LET rule == rules[log[n].rule]
        IN  /\ ~rule.alwaysActive
            /\ LogicOf(rule) = "NOT_ANY"
            /\ Cardinality(FoundIn(rule.keywords, rule, context)) = 0
            /\ Len(rule.keywords) >= 1
            /\ Cardinality(FoundIn(rule.secondaryKeywords, rule, context)) = 1
            /\ log[n].outcome = "logic"

-----------------------------------------------------------------------------
(* Properties of the gates *)

\* the rule of entry n is in the skipped list and not in the activated list, of
\* the pass and of the returned result
RecordedSkipped(n) ==
    LET i == log[n].rule
    IN  /\ i \in ListedPositions(skipped)
        /\ i \notin ActivatedPositions(activated)
        /\ result # <<>> =>
              /\ i \in ListedPositions(result[1].skippedRules)
              /\ i \notin ActivatedPositions(result[1].activatedRules)

\* C11: of the rules that reach the probability gate, one with probability
\* >= 100 or unset always passes; one with probability <= 0 never passes and is
\* not activated; one with 0 < probability < 100 passes iff the draw r of
\* [0, 100) is below the probability; a rule that fails the gate is recorded in
\* skippedRules
C11_ProbabilityGate ==
    \A n \in PassEntries :
        LET p == rules[log[n].rule].probability
        IN  log[n].outcome # "cap" =>
              /\ (p = <<>> \/ p[1] >= 100) => log[n].outcome # "probability"
              /\ (p # <<>> /\ p[1] <= 0) => log[n].outcome = "probability"
              /\ (p # <<>> /\ p[1] > 0 /\ p[1] < 100) =>
                    /\ log[n].draw # <<>>
                    /\ log[n].draw[1] >= 0 /\ log[n].draw[1] < 100
                    /\ log[n].outcome # "probability" <=> log[n].draw[1] < p[1]
              /\ log[n].outcome = "probability" => RecordedSkipped(n)

\* C11 witness: a rule with probability 50 was rejected on the draw 50 and is in
\* the returned skippedRules
C11_Witness ==
    /\ result # <<>>
    /\ \E n \in PassEntries :
          /\ rules[log[n].rule].probability = <<50>>
          /\ log[n].draw = <<50>>
          /\ log[n].outcome = "probability"
          /\ log[n].rule \in ListedPositions(result[1].skippedRules)

-----------------------------------------------------------------------------
(* Properties of the keyword matching *)

\* a letter or a digit
IsAlphanumeric(c) ==
    c \in Range(LowerLetters) \cup Range(UpperLetters) \cup Range(Digits)

\* kw occurs in text with each end of the occurrence at a string edge or next to
\* a non-alphanumeric character
OccursAsWord(text, kw) ==
    \E i \in 1..(Len(text) + 1) :
        /\ OccursAt(text, kw, i)
        /\ i = 1 \/ ~IsAlphanumeric(text[i - 1])
        /\ i + Len(kw) - 1 = Len(text) \/ ~IsAlphanumeric(text[i + Len(kw)])

\* the case folding of the matching: none when case-sensitive
Folded(s, rule, ctx) ==
    IF TruthyBool(CaseSensitiveOf(rule, ctx)) THEN s ELSE ToLowerCase(s)

\* C12: in whole-word mode a keyword matches iff it occurs in the text with each
\* end of the occurrence at a string edge or next to a non-alphanumeric
\* character; with whole-word mode off it matches iff it occurs as a substring;
\* by default "cat" matches "Cat"
C12_WholeWordMatching ==
    \A n \in PassEntries :
        LET rule == rules[log[n].rule]
            text == Folded(collectScanText(rule, context), rule, context)
        IN  ( /\ ~rule.alwaysActive
              /\ LogicOf(rule) = "AND_ANY"
              /\ Len(rule.keywords) = 1
              /\ rule.secondaryKeywords = <<>>
              /\ Trim(rule.keywords[1]) # <<>>
              /\ ReachedLogic(n) ) =>
            LET kw == Folded(rule.keywords[1], rule, context)
            IN  /\ TruthyBool(MatchWholeWordsOf(rule, context)) =>
                      (LogicActivated(n) <=> OccursAsWord(text, kw))
                /\ ~TruthyBool(MatchWholeWordsOf(rule, context)) =>
                      (LogicActivated(n) <=> Includes(text, kw))
                /\ ( /\ rule.keywords[1] = sCat
                     /\ context.playerInput = sCatUp
                     /\ rule.caseSensitive = <<>>
                     /\ context.caseSensitive = <<>> ) => LogicActivated(n)

-----------------------------------------------------------------------------
(* Properties of clearHistory *)

\* C13: after clearHistory getStats().totalRules is 0, and in the next
\* processRules call no rule is blocked by the per-turn cap, even when the call
\* uses the turn number of activations recorded before the clear (the ids of a
\* pool are distinct, so a rule is decided once in a pass)
C13_ClearHistory ==
    /\ sinceClear = 0 => getStats(activationHistory).totalRules = 0
    /\ sinceClear = 1 => \A n \in PassEntries : log[n].outcome # "cap"

\* C13 witness: a rule with cap 1, admitted for turn 0 in the first call, is
\* admitted again for turn 0 in the second call, the first one after a clear
C13_Witness ==
    /\ sinceClear = 1
    /\ calls = 2
    /\ CurrentTurnOf(context) = 0
    /\ \E n \in PassEntries :
          LET rule == rules[log[n].rule]
          IN  /\ rule.maxActivationsPerTurn = <<1>>
              /\ log[n].outcome = "activated"
              /\ rule.activationCount = <<2>>
              /\ rule.lastActivated = <<0>>
              /\ HistoryOf(activationHistory, rule.id) = <<0>>

-----------------------------------------------------------------------------
(* Properties of formatForPrompt *)

\* the positions of a string that hold the element e, in increasing order
PositionsOf(str, e) == SelectSeq([i \in 1..Len(str) |-> i], LAMBDA i : str[i] = e)

\* the number written by a string of decimal digits, -1 if it is not one
RECURSIVE ParseDigits(_)
ParseDigits(str) ==
    IF str = <<>> \/ \E i \in 1..Len(str) : str[i] \notin Range(Digits) THEN -1
    ELSE LET last == (CHOOSE d \in 1..10 : Digits[d] = str[Len(str)]) - 1
         IN  IF Len(str) = 1 THEN last
             ELSE 10 * ParseDigits(SubSeq(str, 1, Len(str) - 1)) + last

\* the footer of a block: what follows the last footer opening; the two numbers
\* it holds
FooterOf(str) ==
    LET opens == PositionsOf(str, FooterOpen)
    IN  IF opens = <<>> THEN <<>> ELSE SubSeq(str, opens[Len(opens)] + 1, Len(str))

FooterCount(footer) ==
    LET seps == PositionsOf(footer, FooterRules)
    IN  IF seps = <<>> THEN -1 ELSE ParseDigits(SubSeq(footer, 1, seps[1] - 1))

FooterTotal(footer) ==
    LET seps == PositionsOf(footer, FooterRules)
    IN  IF seps = <<>> \/ footer[Len(footer)] # FooterTokens THEN -1
        ELSE ParseDigits(SubSeq(footer, seps[1] + 1, Len(footer) - 1))

\* the sub-block that starts at position b of the block str is the one of the
\* ActivatedRule act: its title follows the opening
BlockIsOf(str, b, act) ==
    LET title == TitleOf(rules[act.rule])
    IN  /\ b + Len(title) + 1 <= Len(str)
        /\ SubSeq(str, b + 1, b + Len(title)) = title
        /\ str[b + Len(title) + 1] = BlockPriority

\* C14: formatForPrompt returns the empty string when activatedRules is empty;
\* otherwise a header, one sub-block per activated rule in the order of
\* activatedRules, and a footer that holds exactly the number of activated rules
\* and the result's totalTokens
C14_FormatForPrompt ==
    prompt # <<>> =>
        LET acts   == result[1].activatedRules
            str    == prompt[1]
            blocks == PositionsOf(str, BlockOpen)
        IN  IF acts = <<>> THEN str = <<>>
            ELSE /\ str[1] = PromptHeader
                 /\ Len(blocks) = Len(acts)
                 /\ \A k \in 1..Len(acts) : BlockIsOf(str, blocks[k], acts[k])
                 /\ FooterCount(FooterOf(str)) = Len(acts)
                 /\ FooterTotal(FooterOf(str)) = result[1].totalTokens

\* C14 witness: a result with two activated rules, one of them with a matched
\* keyword, and 3002 tokens has been formatted
C14_Witness ==
    /\ prompt # <<>>
    /\ Len(result[1].activatedRules) = 2
    /\ \E k \in 1..2 : result[1].activatedRules[k].matchedKeywords # <<>>
    /\ result[1].totalTokens = 3002
    /\ FooterCount(FooterOf(prompt[1])) = 2
    /\ FooterTotal(FooterOf(prompt[1])) = 3002

-----------------------------------------------------------------------------
(* Properties of the error handling *)

\* the history map as it was when the rule of entry n was decided (during the
\* pass; the ids of a pool are distinct)
HistoryBefore(n) ==
    LET id == rules[log[n].rule].id
    IN  IF log[n].outcome = "activated"
        THEN [k \in DOMAIN activationHistory |->
                 IF k = id
                 THEN SubSeq(activationHistory[k], 1, Len(activationHistory[k]) - 1)
                 ELSE activationHistory[k]]
        ELSE activationHistory

\* the outcome the rule of entry n has in the pass over the pool without the
\* rules that raised a failure, with the same random draws; TotalWithout(n) is
\* the running total of that pass when it reaches the rule
RECURSIVE OutcomeWithout(_)
RECURSIVE TotalWithout(_)
OutcomeWithout(n) ==
    Gate(HistoryBefore(n), rules[log[n].rule], context, TotalWithout(n),
         IF log[n].draw = <<>> THEN 0 ELSE log[n].draw[1])

TotalWithout(n) ==
    IF n <= 1 THEN 0
    ELSE TotalWithout(n - 1)
         + (IF log[n - 1].outcome # "error" /\ OutcomeWithout(n - 1) = "activated"
            THEN TokenCostOf(rules[log[n - 1].rule]) ELSE 0)

\* every call of processRules that is over has returned a result
AlwaysReturns == (pc = "idle" /\ calls > 0) => result # <<>>

\* C15: processRules always returns a result, after deciding every active
\* rule; a rule whose evaluation raises a failure is recorded in skippedRules,
\* once, and not activated; every other active rule has the outcome it has in
\* the pass without the failing rules
C15_FailureIsolated ==
    /\ AlwaysReturns
    /\ result # <<>> =>
          /\ Len(log) = Len(activeRules)
          /\ \A n \in PassEntries : log[n].rule = activeRules[n]
          /\ activeRules = ActiveRulesOf(rules)
    /\ \A n \in PassEntries :
          /\ log[n].outcome = "error" =>
                /\ RecordedSkipped(n)
                /\ Len(SelectSeq(skipped, LAMBDA i : i = log[n].rule)) = 1
          /\ (pc = "loop" /\ log[n].outcome # "error") =>
                log[n].outcome = OutcomeWithout(n)

-----------------------------------------------------------------------------
(* Properties of the order of the gates *)

\* the random draw of entry n (0 when none was made)
DrawOf(n) == IF log[n].draw = <<>> THEN 0 ELSE log[n].draw[1]

\* the rule of entry n passed the cap and the probability gate (during the pass)
PassedCapAndProbability(n) ==
    /\ checkActivationLimits(HistoryBefore(n), rules[log[n].rule], CurrentTurnOf(context))
    /\ checkProbability(rules[log[n].rule], DrawOf(n))

\* the rule of entry n is in neither list, of the pass and of the returned result
InNeitherList(n) ==
    LET i == log[n].rule
    IN  /\ i \notin ListedPositions(skipped)
        /\ i \notin ActivatedPositions(activated)
        /\ result # <<>> =>
              /\ i \notin ListedPositions(result[1].skippedRules)
              /\ i \notin ActivatedPositions(result[1].activatedRules)

\* C16: an active rule that passes the cap and probability gates and whose scan
\* text is empty after trimming is in neither activatedRules nor skippedRules,
\* alwaysActive or not; a rule rejected by the cap, probability, logic or budget
\* gate is in skippedRules
C16_EmptyTextDropped ==
    \A n \in PassEntries :
        /\ ( /\ pc = "loop"
             /\ PassedCapAndProbability(n)
             /\ collectScanText(rules[log[n].rule], context) = <<>> )
           => log[n].outcome = "no text"
        /\ log[n].outcome = "no text" =>
              /\ collectScanText(rules[log[n].rule], context) = <<>>
              /\ InNeitherList(n)
        /\ log[n].outcome \in {"cap", "probability", "logic", "budget"} =>
              RecordedSkipped(n)

\* C16 witness: a returned pass in which an alwaysActive rule was dropped for
\* its empty scan text and another rule was rejected by the probability gate
C16_Witness ==
    /\ result # <<>>
    /\ \E n, m \in PassEntries :
          /\ rules[log[n].rule].alwaysActive
          /\ log[n].outcome = "no text"
          /\ log[m].outcome = "probability"
          /\ result[1].skippedRules = <<log[m].rule>>
          /\ result[1].activatedRules = <<>>

-----------------------------------------------------------------------------
(* Properties of the keyword logic: rules without keywords, MatchAnyOf *)

\* C17: a rule that is not alwaysActive and has no primary and no secondary
\* keyword is never activated, in any logic mode and for any scan text; when it
\* reaches the logic step it is recorded in skippedRules
C17_NoKeywordsNeverActivates ==
    \A n \in PassEntries :
        LET rule == rules[log[n].rule]
        IN  (~rule.alwaysActive /\ ConfiguredCount(rule) = 0) =>
              /\ log[n].outcome \in {"cap", "probability", "no text", "logic"}
              /\ log[n].rule \notin ActivatedPositions(activated)
              /\ result # <<>> =>
                    log[n].rule \notin ActivatedPositions(result[1].activatedRules)
              /\ log[n].outcome = "logic" => RecordedSkipped(n)
              /\ ( /\ pc = "loop"
                   /\ PassedCapAndProbability(n)
                   /\ collectScanText(rule, context) # <<>> )
                 => log[n].outcome = "logic"

\* C17 witness: a MatchNoneOf rule without keywords was rejected by the logic
\* and is in the returned skippedRules
C17_Witness ==
    /\ result # <<>>
    /\ \E n \in PassEntries :
          LET rule == rules[log[n].rule]
          IN  /\ ~rule.alwaysActive
              /\ ConfiguredCount(rule) = 0
              /\ LogicOf(rule) = "NOT_ANY"
              /\ log[n].outcome = "logic"
              /\ result[1].skippedRules = <<log[n].rule>>

\* the keywords of a list that are found in the rule's scan text, in the order
\* of the list
MatchedOf(list, rule, ctx) ==
    [k \in 1..Cardinality(FoundIn(list, rule, ctx)) |->
        list[CHOOSE p \in FoundIn(list, rule, ctx) :
                Cardinality({q \in FoundIn(list, rule, ctx) : q <= p}) = k]]

\* the ActivatedRule entries of a list for pool position i report the keywords kws
ReportsKeywords(acts, i, kws) ==
    \A k \in 1..Len(acts) : acts[k].rule = i => acts[k].matchedKeywords = kws

\* C18: a non-alwaysActive rule in MatchAnyOf mode, or with no logic set, is
\* activated by the logic iff at least one primary or one secondary keyword
\* matched, and its matchedKeywords are the primary matches followed by the
\* secondary matches
C18_MatchAnyOf ==
    \A n \in PassEntries :
        LET rule == rules[log[n].rule]
            kws  == MatchedOf(rule.keywords, rule, context)
                    \o MatchedOf(rule.secondaryKeywords, rule, context)
        IN  ( /\ ~rule.alwaysActive
              /\ rule.logic \in {<<>>, <<"AND_ANY">>}
              /\ ReachedLogic(n) ) =>
              /\ LogicActivated(n) <=> MatchedCount(rule, context) >= 1
              /\ ReportsKeywords(activated, log[n].rule, kws)
              /\ result # <<>> =>
                    ReportsKeywords(result[1].activatedRules, log[n].rule, kws)

\* C18 witness: a rule with no logic set, one primary and two secondary
\* keywords, was activated on a match of the secondary keywords only
C18_Witness ==
    /\ result # <<>>
    /\ \E n \in PassEntries :
          LET rule == rules[log[n].rule]
          IN  /\ ~rule.alwaysActive
              /\ rule.logic = <<>>
              /\ Len(rule.keywords) = 1
              /\ FoundIn(rule.keywords, rule, context) = {}
              /\ log[n].outcome = "activated"
              /\ Len(result[1].activatedRules) = 1
              /\ result[1].activatedRules[1].matchedKeywords = <<sB, sCat>>

-----------------------------------------------------------------------------
(* Properties of the order of evaluation *)

\* the order value of a rule, a missing one counted as 0
OrderValue(rule) == IF rule.order = <<>> THEN 0 ELSE rule.order[1]

\* the entry of the pass in which the rule at pool position i was decided
EntryOf(i) == CHOOSE n \in PassEntries : log[n].rule = i

\* C19: the active rules are evaluated in descending order value (a missing
\* order counted as 0), rules of equal order in their order in the pool; the
\* returned activatedRules are in descending priority, entries of equal
\* priority in admission order
C19_EvaluationOrder ==
    /\ \A a, b \in PassEntries :
          a < b =>
            \/ OrderValue(rules[log[a].rule]) > OrderValue(rules[log[b].rule])
            \/ /\ OrderValue(rules[log[a].rule]) = OrderValue(rules[log[b].rule])
               /\ log[a].rule < log[b].rule
    /\ result # <<>> =>
          LET acts == result[1].activatedRules
          IN  /\ {log[n].rule : n \in PassEntries}
                    = {i \in 1..Len(rules) : rules[i].isActive}
              /\ \A k \in 1..Len(acts) :
                    acts[k].priority = OrderValue(rules[acts[k].rule])
              /\ \A k, l \in 1..Len(acts) :
                    k < l =>
                      \/ acts[k].priority > acts[l].priority
                      \/ /\ acts[k].priority = acts[l].priority
                         /\ EntryOf(acts[k].rule) < EntryOf(acts[l].rule)

\* C19 witness: a pool of four rules given in ascending order (-1, unset, 5, 5)
\* was evaluated in the order 3, 4, 2, 1 and the two rules of order 5 were
\* returned in that order
C19_Witness ==
    /\ result # <<>>
    /\ Len(rules) = 4
    /\ rules[1].order = <<-1>> /\ rules[2].order = <<>>
    /\ rules[3].order = <<5>> /\ rules[4].order = <<5>>
    /\ [n \in PassEntries |-> log[n].rule] = <<3, 4, 2, 1>>
    /\ [k \in 1..Len(result[1].activatedRules) |-> result[1].activatedRules[k].rule]
          = <<3, 4>>

\* what each gate says of the rule of entry n, taken alone (during the pass)
CapRejects(n) ==
    ~checkActivationLimits(HistoryBefore(n), rules[log[n].rule], CurrentTurnOf(context))
ProbabilityRejects(n) == ~checkProbability(rules[log[n].rule], DrawOf(n))
TextIsEmpty(n) == collectScanText(rules[log[n].rule], context) = <<>>
LogicRejects(n) ==
    LET rule == rules[log[n].rule]
    IN  IF rule.alwaysActive THEN FALSE
        ELSE IF ConfiguredCount(rule) = 0 THEN TRUE
        ELSE CASE LogicOf(rule) = "AND_ANY" -> MatchedCount(rule, context) = 0
               [] LogicOf(rule) = "AND_ALL" ->
                      MatchedCount(rule, context) # ConfiguredCount(rule)
               [] LogicOf(rule) = "NOT_ALL" ->
                      \/ MatchedCount(rule, context) = 0
                      \/ MatchedCount(rule, context) = ConfiguredCount(rule)
               [] LogicOf(rule) = "NOT_ANY" -> MatchedCount(rule, context) # 0
BudgetRejects(n) ==
    TotalBefore(n) + TokenCostOf(rules[log[n].rule]) > TokenBudgetOf(context)

\* C20: the gates are applied in the order cap, probability, scan text, keyword
\* logic, token budget, and the first that rejects decides the outcome: a
\* cap-blocked or probability-failed rule is recorded in skippedRules whatever
\* its scan text, and a rule whose logic fails is recorded as skipped whatever
\* its token cost (rules whose keywords are strings)
C20_GateOrder ==
    \A n \in PassEntries :
        /\ log[n].draw # <<>> => log[n].outcome # "cap"
        /\ log[n].outcome \in {"cap", "probability", "logic"} => RecordedSkipped(n)
        /\ (pc = "loop" /\ ~KeywordsThrow(rules[log[n].rule])) =>
              log[n].outcome =
                  IF CapRejects(n) THEN "cap"
                  ELSE IF ProbabilityRejects(n) THEN "probability"
                  ELSE IF TextIsEmpty(n) THEN "no text"
                  ELSE IF LogicRejects(n) THEN "logic"
                  ELSE IF BudgetRejects(n) THEN "budget"
                  ELSE "activated"

\* C20 witness: in a call with an empty scan text a cap-blocked rule and a rule
\* that failed the probability gate are both in the returned skippedRules
C20_Witness ==
    /\ result # <<>>
    /\ context.playerInput = <<>>
    /\ \E n, m \in PassEntries :
          /\ log[n].outcome = "cap"
          /\ log[m].outcome = "probability"
          /\ collectScanText(rules[log[n].rule], context) = <<>>
          /\ collectScanText(rules[log[m].rule], context) = <<>>
          /\ {log[n].rule, log[m].rule} \subseteq ListedPositions(result[1].skippedRules)

-----------------------------------------------------------------------------
(* Properties of collectScanText *)

\* the texts of the context that the pass found in the scan text of the rule
\* of entry n: the keywords its activated entry reports (none when the rule was
\* not activated: it matches any text)
ScannedTexts(n) ==
    UNION {Range(activated[k].matchedKeywords) :
              k \in {q \in 1..Len(activated) : activated[q].rule = log[n].rule}}

\* the positions of the history entries of a role
RolePositions(ctx, role) ==
    {j \in 1..Len(ctx.gameHistory) : ctx.gameHistory[j].role = role}

\* the last c elements of a set of positions (all of them when it has fewer)
LastOf(S, c) == {j \in S : Cardinality({q \in S : q > j}) < c}

\* C21: with AI-output scanning enabled, the AI-authored history entries in the
\* scan text are exactly the last 3 of them, all when there are fewer,
\* whatever the scan depth of the rule and of the context
C21_LastThreeAIEntries ==
    \A n \in PassEntries :
        LET rule == rules[log[n].rule]
        IN  rule.scanAIOutput # <<FALSE>> =>
              \A j \in RolePositions(context, "model") :
                  HistoryToken(j) \in ScannedTexts(n)
                      <=> j \in LastOf(RolePositions(context, "model"), 3)

\* C21 witness: with depth 1, of four AI entries the last three are scanned and
\* the first is not
C21_Witness ==
    \E n \in PassEntries :
        /\ rules[log[n].rule].scanDepth = <<1>>
        /\ rules[log[n].rule].scanAIOutput # <<FALSE>>
        /\ RolePositions(context, "model") = 1..4
        /\ {HistoryToken(2), HistoryToken(3), HistoryToken(4)} \subseteq ScannedTexts(n)
        /\ HistoryToken(1) \notin ScannedTexts(n)

\* the scan depth the rule of a pass is stated to use: its own, else the
\* context's, else 5
StatedDepth(rule, ctx) ==
    IF rule.scanDepth # <<>> THEN rule.scanDepth[1]
    ELSE IF ctx.scanDepth # <<>> THEN ctx.scanDepth[1] ELSE 5

\* C22: a player-authored history entry is in the scan text exactly when
\* player-input scanning is enabled for the rule and the entry is among the
\* last depth entries of the whole history, entries of every role counted
C22_UserEntriesWithinDepth ==
    \A n \in PassEntries :
        LET rule == rules[log[n].rule]
        IN  \A j \in RolePositions(context, "user") :
                HistoryToken(j) \in ScannedTexts(n)
                    <=> /\ rule.scanPlayerInput # <<FALSE>>
                        /\ j > Len(context.gameHistory) - StatedDepth(rule, context)

\* the positions of the memories that are not pinned, or pinned with an
\* importance above 70
EligibleMemories(ctx) ==
    {j \in 1..Len(ctx.memories) :
        \/ ~ctx.memories[j].pinned
        \/ /\ ctx.memories[j].importance # <<>>
           /\ ctx.memories[j].importance[1] > 70}

\* C23: with memory scanning enabled, the memories in the scan text are exactly
\* the last depth of the eligible memories; a pinned memory of importance 70 or
\* less, or of no importance, is never in it and takes no place among the depth
C23_MemoriesWithinDepth ==
    \A n \in PassEntries :
        LET rule == rules[log[n].rule]
        IN  rule.scanMemories # <<FALSE>> =>
              \A j \in 1..Len(context.memories) :
                  MemoryToken(j) \in ScannedTexts(n)
                      <=> j \in LastOf(EligibleMemories(context),
                                       StatedDepth(rule, context))

\* C23 witness: with depth 1, a pinned memory of importance 70 at the end of
\* the list is left out and the memory before it, not pinned, is scanned
C23_Witness ==
    \E n \in PassEntries :
        /\ StatedDepth(rules[log[n].rule], context) = 1
        /\ Len(context.memories) = 2
        /\ ~context.memories[1].pinned
        /\ context.memories[2].pinned /\ context.memories[2].importance = <<70>>
        /\ MemoryToken(1) \in ScannedTexts(n)
        /\ MemoryToken(2) \notin ScannedTexts(n)

\* the texts of the context that come from a scan source
AITexts(ctx)     == {sAI} \cup {HistoryToken(j) : j \in RolePositions(ctx, "model")}
PlayerTexts(ctx) == {sPlayer} \cup {HistoryToken(j) : j \in RolePositions(ctx, "user")}
MemoryTexts(ctx) == {MemoryToken(j) : j \in 1..Len(ctx.memories)}

\* C24: a source the rule sets to false gives no text to the scan text, and a
\* source the rule leaves unset is scanned like one it sets to true: the
\* current AI response, the current player input and the last eligible memory
\* are in the scan text
C24_ScanToggles ==
    \A n \in PassEntries :
        LET rule == rules[log[n].rule]
        IN  /\ rule.scanAIOutput = <<FALSE>> =>
                  AITexts(context) \cap ScannedTexts(n) = {}
            /\ rule.scanPlayerInput = <<FALSE>> =>
                  PlayerTexts(context) \cap ScannedTexts(n) = {}
            /\ rule.scanMemories = <<FALSE>> =>
                  MemoryTexts(context) \cap ScannedTexts(n) = {}
            /\ (rule.scanAIOutput # <<FALSE>> /\ context.aiResponse # <<>>) =>
                  sAI \in ScannedTexts(n)
            /\ (rule.scanPlayerInput # <<FALSE>> /\ context.playerInput # <<>>) =>
                  sPlayer \in ScannedTexts(n)
            /\ (rule.scanMemories # <<FALSE>> /\ EligibleMemories(context) # {}) =>
                  \E j \in EligibleMemories(context) :
                      MemoryToken(j) \in ScannedTexts(n)

\* C24 witness: a rule that sets scanAIOutput to false and leaves the two other
\* toggles unset scans the player input and a player entry of the history, and
\* neither the AI response nor the AI entry
C24_Witness ==
    \E n \in PassEntries :
        /\ rules[log[n].rule].scanAIOutput = <<FALSE>>
        /\ rules[log[n].rule].scanPlayerInput = <<>>
        /\ context.aiResponse = sAI
        /\ RolePositions(context, "model") = {1}
        /\ RolePositions(context, "user") = {2}
        /\ ScannedTexts(n) = {sPlayer, HistoryToken(2)}

-----------------------------------------------------------------------------
(* Properties of the token cost *)

\* the cost a rule is stated to be charged: its token weight when one is set,
\* 0 included, else the length of its content over 4, rounded up
StatedCost(rule) ==
    IF rule.tokenWeight # <<>> THEN rule.tokenWeight[1]
    ELSE IF rule.content = <<>> THEN 0
    ELSE CeilDiv(Len(rule.content[1]), 4)

\* C25: every activated rule is charged its token weight when one is set on it,
\* a weight of 0 included, and else ceil(length(content) / 4), which is 0 for
\* an empty content
C25_TokenCost ==
    \A k \in 1..Len(activated) :
        activated[k].tokenCost = StatedCost(rules[activated[k].rule])

-----------------------------------------------------------------------------
(* Properties of an admission *)

\* the turn number of the pass: the context's, 0 when it has none
StatedTurn == IF context.currentTurn # <<>> THEN context.currentTurn[1] ELSE 0

\* C26: a step that admits a rule appends one entry, the current turn number,
\* to the history of the rule, adds 1 to its activationCount (0 when unset),
\* sets its lastActivated to the current turn number, adds its token cost to
\* the running total and appends one entry for it to the activated list
C26_Admission ==
    [][(Len(log') = Len(log) + 1 /\ log'[Len(log')].outcome = "activated") =>
         LET i    == log'[Len(log')].rule
             rule == rules[i]
             last == Len(activated')
         IN  /\ HistoryOf(activationHistory', rule.id)
                   = Append(HistoryOf(activationHistory, rule.id), StatedTurn)
             /\ rules'[i].activationCount
                   = <<(IF rule.activationCount = <<>> THEN 0
                        ELSE rule.activationCount[1]) + 1>>
             /\ rules'[i].lastActivated = <<StatedTurn>>
             /\ last = Len(activated) + 1
             /\ SubSeq(activated', 1, Len(activated)) = activated
             /\ activated'[last].rule = i
             /\ totalTokens' = totalTokens + activated'[last].tokenCost]_vars

\* C26 witness: a rule admitted for the second time at turn 1, with two entries
\* in its history and an activationCount of 2
C26_Witness ==
    /\ pc = "loop"
    /\ \E n \in PassEntries :
          LET rule == rules[log[n].rule]
          IN  /\ log[n].outcome = "activated"
              /\ HistoryOf(activationHistory, rule.id) = <<1, 1>>
              /\ rule.activationCount = <<2>>
              /\ rule.lastActivated = <<1>>
              /\ totalTokens > 0

-----------------------------------------------------------------------------
(* Properties of the matching settings *)

\* the setting the matching is stated to use: the rule's when the rule sets
\* it, to true or to false, and the context's when the rule leaves it unset
StatedSetting(ruleSetting, contextSetting) ==
    IF ruleSetting # <<>> THEN ruleSetting ELSE contextSetting

\* C27: a rule of one keyword is matched with its own caseSensitive and
\* matchWholeWords where it sets them, and with the context's where it leaves
\* them unset; a rule with caseSensitive = false is matched case-insensitively
\* under a case-sensitive context
C27_RuleSettingsOverride ==
    \A n \in PassEntries :
        LET rule == rules[log[n].rule]
        IN  ( /\ ~rule.alwaysActive
              /\ LogicOf(rule) = "AND_ANY"
              /\ Len(rule.keywords) = 1
              /\ rule.secondaryKeywords = <<>>
              /\ ReachedLogic(n) ) =>
            ( LogicActivated(n) <=>
                keywordMatches(collectScanText(rule, context), rule.keywords[1],
                               StatedSetting(rule.caseSensitive, context.caseSensitive),
                               StatedSetting(rule.matchWholeWords,
                                             context.matchWholeWords)) )

-----------------------------------------------------------------------------
(* Properties of getStats *)

\* the number of admissions counted for the ids of S
RECURSIVE AdmissionsOf(_)
AdmissionsOf(S) ==
    IF S = {} THEN 0
    ELSE LET id == CHOOSE k \in S : TRUE
         IN  admitted[id] + AdmissionsOf(S \ {id})

\* C28: at every point of a sequence of processRules and clearHistory calls,
\* getStats returns as totalRules the number of rule
\* ids admitted since the last clearHistory, and as averageActivations the
\* number of admissions since the last clearHistory over that number of ids,
\* 0 when there is none
C28_GetStats ==
    LET stats == getStats(activationHistory)
        ids   == Cardinality(DOMAIN admitted)
    IN  /\ stats.totalRules = ids
        /\ ids = 0 => stats.averageActivations.num = 0
        /\ ids > 0 =>
              stats.averageActivations
                  = [num |-> AdmissionsOf(DOMAIN admitted), den |-> ids]

\* C28 witness: after a pass, a clearHistory and two more passes, two rule ids
\* with three admissions between them: totalRules is 2 and averageActivations
\* is 3 / 2
C28_Witness ==
    /\ pc = "idle"
    /\ calls = 3
    /\ sinceClear = 2
    /\ Cardinality(DOMAIN admitted) = 2
    /\ AdmissionsOf(DOMAIN admitted) = 3
    /\ \E id \in DOMAIN admitted : Len(HistoryOf(activationHistory, id)) = 2
    /\ getStats(activationHistory).totalRules = 2
    /\ getStats(activationHistory).averageActivations = [num |-> 3, den |-> 2]

-----------------------------------------------------------------------------
(* The rules a pass leaves as they are *)

\* the step admits the rule at position i of the pool
AdmittedInStep(i) ==
    /\ Len(log') = Len(log) + 1
    /\ log'[Len(log')].outcome = "activated"
    /\ log'[Len(log')].rule = i

\* C29: a step of processRules changes the lastActivated, the activationCount
\* and the history of no rule but the one it admits: a rule that is inactive,
\* skipped by a gate, dropped for an empty scan text or failed with an error
\* keeps all three
C29_OnlyAdmittedChange ==
    [][(pc = "loop" \/ pc' = "loop") =>
         \A i \in 1..Len(rules) :
             ~AdmittedInStep(i) =>
                 /\ rules'[i].lastActivated = rules[i].lastActivated
                 /\ rules'[i].activationCount = rules[i].activationCount
                 /\ HistoryOf(activationHistory', rules[i].id)
                       = HistoryOf(activationHistory, rules[i].id)
                 /\ rules[i].id \in DOMAIN activationHistory'
                       <=> rules[i].id \in DOMAIN activationHistory]_vars

\* C29 witness: a second pass has admitted one rule and has left as they were
\* a rule the cap rejected, with its one admission of the first pass, a rule
\* that failed with an error and an inactive rule, both never admitted
C29_Witness ==
    /\ result # <<>>
    /\ calls = 2
    /\ \E n \in PassEntries :
          /\ log[n].outcome = "activated"
          /\ rules[log[n].rule].activationCount = <<2>>
    /\ \E n \in PassEntries :
          /\ log[n].outcome = "cap"
          /\ rules[log[n].rule].activationCount = <<1>>
          /\ HistoryOf(activationHistory, rules[log[n].rule].id) = <<0>>
    /\ \E n \in PassEntries :
          /\ log[n].outcome = "error"
          /\ rules[log[n].rule].activationCount = <<>>
          /\ rules[log[n].rule].id \notin DOMAIN activationHistory
    /\ \E i \in 1..Len(rules) :
          /\ ~rules[i].isActive
          /\ rules[i].lastActivated = <<>>
          /\ rules[i].id \notin DOMAIN activationHistory

-----------------------------------------------------------------------------
(* Properties of the per-turn cap *)

\* C30: at every point of a sequence of processRules and clearHistory calls,
\* the history of a rule with a cap c > 0 has at most c entries equal to any
\* one turn number, also when passes repeat a turn number and when the pool
\* lists the id of the rule more than once
C30_CapPerTurn ==
    \A i \in 1..Len(rules) :
        LET cap     == rules[i].maxActivationsPerTurn
            history == HistoryOf(activationHistory, rules[i].id)
        IN  (cap # <<>> /\ cap[1] > 0) =>
              \A t \in Range(history) : CountTurn(history, t) <= cap[1]

\* C30 witness: the second pass for turn 1 over three copies of a rule with
\* cap 2, two of them admitted in the first pass: the cap rejects all three
C30_Witness ==
    /\ calls = 2
    /\ sinceClear = 2
    /\ Len(rules) = 3
    /\ \A i \in 1..3 : rules[i].id = "d" /\ rules[i].maxActivationsPerTurn = <<2>>
    /\ HistoryOf(activationHistory, "d") = <<1, 1>>
    /\ [n \in PassEntries |-> log[n].outcome] = <<"cap", "cap", "cap">>

-----------------------------------------------------------------------------
(* Properties of the returned result *)

\* a list of pool positions has no position twice
NoRepeat(list) == Cardinality(ListedPositions(list)) = Len(list)

\* the pool positions of the active rules
ActivePositions == {i \in 1..Len(rules) : rules[i].isActive}

\* C31: in a result over a pool of unique ids, no rule is in both lists, no
\* rule is twice in a list, every listed rule is an active rule of the pool,
\* and the two lists together have at most as many entries as the pool has
\* active rules
C31_ResultLists ==
    result # <<>> =>
        LET acts == [k \in 1..Len(result[1].activatedRules) |->
                        result[1].activatedRules[k].rule]
            skip == result[1].skippedRules
        IN  /\ ListedPositions(acts) \cap ListedPositions(skip) = {}
            /\ NoRepeat(acts)
            /\ NoRepeat(skip)
            /\ ListedPositions(acts) \cup ListedPositions(skip) \subseteq ActivePositions
            /\ Len(acts) + Len(skip) <= Cardinality(ActivePositions)

\* C31 witness: a result over a pool with an inactive rule, with two activated
\* rules and a skipped one, that lists every active rule
C31_Witness ==
    /\ result # <<>>
    /\ Len(result[1].activatedRules) = 2
    /\ Len(result[1].skippedRules) = 1
    /\ Cardinality(ActivePositions) = 3
    /\ Len(rules) = 4

\* the sum of the tokenCost fields of a list of ActivatedRule entries
RECURSIVE CostSum(_)
CostSum(acts) == IF acts = <<>> THEN 0 ELSE acts[1].tokenCost + CostSum(Tail(acts))

\* C32: in every result, totalTokens is the sum of the tokenCost fields of the
\* entries of activatedRules, 0 when there is none
C32_TotalIsSum ==
    result # <<>> => result[1].totalTokens = CostSum(result[1].activatedRules)

\* C32 witness: a result with two activated rules of a non-zero cost each and
\* a rule skipped for the budget
C32_Witness ==
    /\ result # <<>>
    /\ Len(result[1].activatedRules) = 2
    /\ \A k \in 1..2 : result[1].activatedRules[k].tokenCost > 0
    /\ result[1].totalTokens
          = result[1].activatedRules[1].tokenCost + result[1].activatedRules[2].tokenCost
    /\ \E n \in PassEntries : log[n].outcome = "budget"

\* the budget the pass is stated to work with: the context's, 5000 when the
\* context has none or has 0
StatedEffectiveBudget ==
    IF context.tokenBudget # <<>> /\ context.tokenBudget[1] # 0
    THEN context.tokenBudget[1] ELSE 5000

\* C33: in every result, whatever the pool and the token budget of the
\* context, budgetExceeded is false and totalTokens is at most the effective
\* token budget
C33_NeverOverBudget ==
    result # <<>> =>
        /\ ~result[1].budgetExceeded
        /\ result[1].totalTokens <= StatedEffectiveBudget

-----------------------------------------------------------------------------
(* What processRules and clearHistory leave as it is *)

\* a rule without the two fields an admission writes
WithoutMetadata(rule) ==
    [rule EXCEPT !.lastActivated = <<>>, !.activationCount = <<>>]

\* C34: no step of processRules changes the length of the caller's pool or the
\* element at any of its positions (the two fields an admission writes apart),
\* and once the pass has its context no step of it changes the context, its
\* history or its memories
C34_PoolAndContextKept ==
    [][(pc = "loop" \/ pc' = "loop") =>
         /\ Len(rules') = Len(rules)
         /\ \A i \in 1..Len(rules) :
                WithoutMetadata(rules'[i]) = WithoutMetadata(rules[i])
         /\ pc = "loop" => context' = context]_vars

\* C34 witness: a pass that has visited the four rules of a pool in an order
\* that is not the pool's has returned, and the pool is in its order
C34_Witness ==
    /\ result # <<>>
    /\ [i \in 1..Len(rules) |-> rules[i].id] = <<"g3", "g5", "g2", "g1">>
    /\ activeRules = <<3, 4, 2, 1>>
    /\ context.playerInput = sCat
    /\ Len(result[1].activatedRules) >= 1

\* C35: a clearHistory step empties the history map and changes no rule, so
\* that the activationCount and lastActivated of every rule are kept
C35_ClearKeepsMetadata ==
    [][(pc = "idle" /\ pc' = "idle") =>
         /\ rules' = rules
         /\ sinceClear' = 0 => activationHistory' = <<>>]_vars

\* C35 witness: after a clearHistory a rule admitted twice has an
\* activationCount of 2 and an empty history
C35_Witness ==
    /\ pc = "idle"
    /\ sinceClear = 0
    /\ activationHistory = <<>>
    /\ \E i \in 1..Len(rules) :
          /\ rules[i].activationCount = <<2>>
          /\ rules[i].lastActivated # <<>>
          /\ rules[i].activationCount[1]
                > Len(HistoryOf(activationHistory, rules[i].id))

-----------------------------------------------------------------------------
(* Properties of generateInitialStory and handleAction *)

\* invocation i is called in this step
CallStep(i) == i = Len(hpc) + 1 /\ Len(hpc') = i

\* invocation i, called earlier, runs in this step
ResumeStep(i) == i \in 1..Len(hpc) /\ hpc'[i] # hpc[i]

\* invocation i completes in this step
CompleteStep(i) == (CallStep(i) \/ ResumeStep(i)) /\ hpc'[i] = "done"

\* C36: an invocation of generateInitialStory that sets the loading flag (every
\* one with an AI client) has set it back to false when it completes, on
\* every path, the missing player-character entity included
C36_InitialStoryLoadingReset ==
    [][\A i \in 1..MaxInvocations :
          (CompleteStep(i) /\ call'[i].handler = "generateInitialStory" /\ ai)
              => ~isLoading']_vars

\* C37: an invocation of handleAction with an empty action or no AI client
\* ends at once and leaves the loading flag alone; any other sets the flag and
\* awaits the AI call; the step that completes an awaiting invocation leaves
\* the flag false, whether the call succeeded, returned empty text, led to the
\* duplicate retry or threw
C37_ActionLoadingReset ==
    /\ [][\A i \in 1..MaxInvocations :
            (CallStep(i) /\ call'[i].handler = "handleAction") =>
                IF Trim(call'[i].action) = <<>> \/ ~ai
                THEN isLoading' = isLoading /\ hpc'[i] = "done"
                ELSE isLoading' /\ hpc'[i] # "done"]_vars
    /\ [][\A i \in 1..MaxInvocations :
            (ResumeStep(i) /\ call[i].handler = "handleAction" /\ hpc'[i] = "done")
                => ~isLoading']_vars

\* handleAction has completed after a duplicate retry that threw, with the
\* loading flag false
C37_Witness ==
    \E i \in 1..Len(call) :
        /\ call[i].handler = "handleAction"
        /\ hpc[i] = "done"
        /\ Len(call[i].responses) = 2
        /\ call[i].responses[2].threw
        /\ ~isLoading

\* the text contains '429'
Has429(message) ==
    \E i \in 1..(Len(message) - 2) :
        message[i] = "4" /\ message[i + 1] = "2" /\ message[i + 2] = "9"

\* C38: a step calls rotateKey at most once, and only as the step in which an
\* invocation of generateInitialStory or handleAction completes, after its
\* awaited AI call threw an error whose text contains '429', while the default
\* key is not in use and there is more than one user key; an invocation that
\* has completed runs no more
C38_RotateOnlyOnRateLimit ==
    /\ [][rotateCalls' # rotateCalls =>
            /\ rotateCalls' = rotateCalls + 1
            /\ \E i \in 1..Len(hpc) :
                  /\ ResumeStep(i)
                  /\ hpc'[i] = "done"
                  /\ call[i].handler \in {"generateInitialStory", "handleAction"}
                  /\ Len(call'[i].responses) = Len(call[i].responses) + 1
                  /\ call'[i].responses[Len(call'[i].responses)].threw
                  /\ Has429(call'[i].responses[Len(call'[i].responses)].message)
            /\ ~isUsingDefaultKey
            /\ userApiKeyCount > 1]_vars
    /\ [][\A i \in 1..Len(hpc) :
            hpc[i] = "done" => (hpc'[i] = "done" /\ call'[i] = call[i])]_vars

\* generateInitialStory and handleAction have each rotated the key
C38_Witness ==
    /\ rotateCalls = 2
    /\ \E i, j \in 1..Len(call) :
          /\ call[i].handler = "generateInitialStory"
          /\ call[j].handler = "handleAction"
          /\ hpc[i] = "done" /\ hpc[j] = "done"
          /\ call[i].responses[Len(call[i].responses)].threw
          /\ call[j].responses[Len(call[j].responses)].threw

\* the AI call of the invocation c returned non-empty text and nothing threw
ReturnedText(c) ==
    /\ c.responses # <<>>
    /\ \A k \in 1..Len(c.responses) : ~c.responses[k].threw
    /\ c.responses[1].text.kind # "empty"

\* C39: the step that completes an invocation of handleAction whose AI call
\* returned non-empty text, with nothing thrown, adds 1 to the turn count and
\* appends the user entry and one model entry to the history, the duplicate
\* retry included; every other step of an invocation of handleAction leaves
\* turn count and history unchanged
C39_TurnAndHistory ==
    [][\A i \in 1..MaxInvocations :
          ((CallStep(i) \/ ResumeStep(i)) /\ call'[i].handler = "handleAction") =>
              IF hpc'[i] = "done" /\ ReturnedText(call'[i])
              THEN LET n == Len(gameHistory)
                   IN  /\ turnCount' = turnCount + 1
                       /\ Len(gameHistory') = n + 2
                       /\ SubSeq(gameHistory', 1, n) = gameHistory
                       /\ gameHistory'[n + 1].role = "user"
                       /\ gameHistory'[n + 2].role = "model"
                       /\ gameHistory'[n + 2].text.kind # "empty"
              ELSE /\ turnCount' = turnCount
                   /\ gameHistory' = gameHistory]_vars

\* the retry of a duplicate returned no text, and the first response was
\* appended
C39_Witness ==
    \E i \in 1..Len(call) :
        /\ call[i].handler = "handleAction"
        /\ hpc[i] = "done"
        /\ Len(call[i].responses) = 2
        /\ ~call[i].responses[2].threw
        /\ call[i].responses[2].text.kind = "empty"
        /\ turnCount >= 1
        /\ gameHistory[Len(gameHistory)].text = call[i].responses[1].text

====
